---------------------------- MODULE Spec2Model ----------------------------
(***************************************************************************)
(* Model of the candidate extraction-and-filtering pipeline of the         *)
(* Recruiter scraper: the text classifiers (profile.py, filters.py), the   *)
(* education classification and the panel extractor                        *)
(* (profile_navigation.py), the page traversal (profile_navigation.py) and *)
(* the search pagination with its incremental checkpoint file (search.py). *)
(*                                                                         *)
(* Python strings are TLA+ strings; Python's None is the empty tuple and a *)
(* present value v is the one-element tuple <<v>>.                         *)
(***************************************************************************)
EXTENDS Integers, Sequences, FiniteSets, TLC

VARIABLES
    \* -- degree/year parser (profile.py) --
    pText,      \* the text handed to _parse_bachelors_year_from_text
    pOut,       \* <<>> before the call, <<result>> after it
    \* -- title matcher (filters.py) --
    tTitle,     \* the title handed to title_matches_whitelist
    tWl,        \* the whitelist handed to it: None or <<set of phrases>>
    tOut,       \* <<>> before the call, <<result>> after it
    \* -- education classification (profile_navigation.py) --
    eCall,      \* which function is called: "classify" or "extract"
    eItems,     \* the education rows of the panel's DOM
    eFlag,      \* classify: the has_education argument; extract: the DOM has
                \* the "See more education" button
    eRaises,    \* extract: page.evaluate raises
    eOut,       \* <<>> before the call, <<result>> after it
    \* -- panel extractor (profile_navigation.py) --
    xPanel,     \* the open panel handed to _extract_from_open_panel
    xWl,        \* the title whitelist handed to it
    xOut,       \* <<>> before the call, <<result>> after it
    \* -- a run: run_search (search.py) and, inside it,
    \*    process_page_via_navigation (profile_navigation.py) --
    rerun,        \* the program has been run before the current run
    rsPc,         \* where the run is: "idle", "browser" (main before
                  \* init_browser), "goto" (run_search called),
                  \* "wait_results", "traverse", "go_next", "done", "failed"
    interrupted,  \* the run was interrupted from outside (KeyboardInterrupt)
    startPage,    \* search_config["start_page"]
    maxPages,     \* search_config["max_pages"]
    titleWl,      \* the title whitelist of the run, None before it is read
    urlSet,       \* search_config["saved_search_url"] is not empty
    browserUsed,  \* the run has launched or connected to a browser
    cfgError,     \* the configuration error raised in the run: "none",
                  \* "url" or "credentials"
    mainAll,      \* None, or <<all_profiles of main as handed to
                  \* apply_filters>> once main has reached its finally block
    pageNum,      \* page_num of run_search's loop
    lastPage,     \* last_page
    allProfiles,  \* all_profiles
    result,       \* None, or <<(all_profiles, last_page)>> once returned
    ppPc,         \* where process_page_via_navigation is: "none", "open",
                  \* "wait_panel", "crash_check", "extract", "save",
                  \* "advance", "close"
    candidateNum, \* candidate_num
    profiles,     \* the traversal's profiles list
    lastExt,      \* the outcome of the extraction of the current candidate
    logFile,      \* output/_incremental_profiles.jsonl: None when the file
                  \* does not exist, else <<its text>>
    \* -- what the run has done, kept to state the properties --
    endedBy,      \* what ended the loop of run_search over the pages
    traversed,    \* the pages whose traversal was started
    nextClicked,  \* the pages on which the next-page link was clicked
    returned,     \* <<page, profiles>> of each traversal that returned
    outcomes,     \* traversal in progress or just returned: the result of
                  \* each extraction, in candidate order
    crashedAt,    \* ... the candidate at which a crash was reported, or 0
    resumeMsg,    \* ... the resume point logged, or None
    pageEnd,      \* ... what ended it
    nextBtn,      \* ... the next-candidate link as last seen
    candClicks,   \* ... the number of clicks on the next-candidate link
    unpaced,      \* a click or key press has not been followed by a
                  \* random_sleep yet
    uiBroken,     \* the last step issued a click or key press while one
                  \* was not yet followed by a random_sleep
    \* -- the checkpoint file on its own (search.py) --
    ckFile,       \* the file: None, or <<its text>>
    ckSaved,      \* the records _save_profiles_incrementally has appended so far
    ckLoaded,     \* <<>>, or <<the list load_incremental_profiles returned>>
    \* -- the start offset of the search URL (search.py) --
    uUrl,         \* search_config["saved_search_url"]
    uStartPage,   \* search_config["start_page"]
    uOut,         \* <<>>, or <<the URL handed to page.goto>>
    \* -- location normalizer (utils.py) --
    lRaw,         \* the text handed to normalize_location
    lOut,         \* None before the call, <<result>> after it
    \* -- record filters (filters.py) --
    fProfiles,    \* the list handed to apply_filters, as it is now
    fGiven,       \* that list as it was when it was handed over
    fConfig,      \* the filter configuration handed to it
    fOut          \* None before the call, <<the list returned>> after it

parserVars == <<pText, pOut>>
titleVars  == <<tTitle, tWl, tOut>>
eduVars    == <<eCall, eItems, eFlag, eRaises, eOut>>
panelVars  == <<xPanel, xWl, xOut>>
runVars    == <<rerun, rsPc, interrupted, startPage, maxPages, titleWl, pageNum,
                lastPage, allProfiles, result, ppPc, candidateNum, profiles,
                lastExt, logFile, endedBy, traversed, nextClicked, returned,
                outcomes, crashedAt, resumeMsg, pageEnd, nextBtn, candClicks, unpaced,
                uiBroken, urlSet, browserUsed, cfgError, mainAll>>
ckVars     == <<ckFile, ckSaved, ckLoaded>>
urlVars    == <<uUrl, uStartPage, uOut>>
locVars    == <<lRaw, lOut>>
filterVars == <<fProfiles, fGiven, fConfig, fOut>>
vars == <<pText, pOut, tTitle, tWl, tOut, eCall, eItems, eFlag, eRaises, eOut,
          xPanel, xWl, xOut, rerun, rsPc, interrupted, startPage, maxPages,
          titleWl, pageNum, lastPage, allProfiles, result, ppPc, candidateNum,
          profiles, lastExt, logFile, endedBy, traversed, nextClicked, returned,
          outcomes, crashedAt, resumeMsg, pageEnd, nextBtn, candClicks, unpaced,
          uiBroken, ckFile, ckSaved, ckLoaded, uUrl, uStartPage, uOut,
          lRaw, lOut, fProfiles, fGiven, fConfig, fOut, urlSet, browserUsed, cfgError,
          mainAll>>

None == <<>>
Some(v) == <<v>>

-----------------------------------------------------------------------------
(* Strings *)

UpperAlpha == "ABCDEFGHIJKLMNOPQRSTUVWXYZ"
LowerAlpha == "abcdefghijklmnopqrstuvwxyz"
Digits == "0123456789"

CharAt(s, i) == SubSeq(s, i, i)

(* The characters of a Python string. A character from U+0001 to U+007E is
   itself, the control characters included, but for ten printable ones: the
   nine characters below that stand for the characters a TLA+ string cannot
   hold, and the grave accent; a text of the program with one of these ten is
   read with OTHER_CHAR in its place. The characters that one stand-in is read
   for are alike under every operation modelled: str.lower, str.strip,
   str.splitlines, the regex classes \w and \d, re.IGNORECASE, json.dumps,
   json.loads and the UTF-8 encoding of a written line. The classes above
   U+007F are those of Python 3.11 (Unicode 14.0). *)

\* the control characters U+0001 to U+001F, in code order
C0Chars == "\t\n\f\r"

\* U+0008, U+000B and U+001C to U+001F
BACKSPACE == CharAt(C0Chars, 8)
VT == CharAt(C0Chars, 11)
FS == CharAt(C0Chars, 28)
GS == CharAt(C0Chars, 29)
RS == CharAt(C0Chars, 30)
US == CharAt(C0Chars, 31)

\* stands for U+0000
NUL == "^"

\* stands for U+0085, U+2028 and U+2029: whitespace and line boundaries
LINE_SEP == "~"

\* stands for the whitespace above U+007F that is no line boundary: U+00A0,
\* U+1680, U+2000 to U+200A, U+202F, U+205F and U+3000
NBSP == "@"

\* stands for a surrogate, U+D800 to U+DFFF, which UTF-8 cannot encode
SURROGATE == "$"

\* stands for U+0130, the only character whose lower() is two characters:
\* "i" and U+0307
DOTTED_I == "!"

\* stands for U+017F, a letter that re.IGNORECASE matches with "s" and that
\* lower() leaves as it is
LONG_S == "*"

\* stands for the characters of \d above U+007F
DECIMAL == ">"

\* stands for the other characters of \w above U+007F (but U+212A KELVIN
\* SIGN, whose lower() is "k" and which is read as "K")
LETTER == "<"

\* stands for every other character: U+007F, the characters above it that
\* are neither whitespace nor of \w, and the ten ASCII characters given up
OTHER_CHAR == "|"

\* the 1-based position of character c in alphabet a, 0 when it is not there
IndexIn(a, c) ==
    IF \E i \in 1..Len(a) : CharAt(a, i) = c
    THEN CHOOSE i \in 1..Len(a) : CharAt(a, i) = c
    ELSE 0

\* c.lower()
LowerChar(c) ==
    IF IndexIn(UpperAlpha, c) > 0 THEN CharAt(LowerAlpha, IndexIn(UpperAlpha, c))
    ELSE IF c = DOTTED_I THEN "i" \o OTHER_CHAR
    ELSE c

RECURSIVE Lower(_)
\* str.lower()
Lower(s) == IF s = "" THEN "" ELSE LowerChar(CharAt(s, 1)) \o Lower(SubSeq(s, 2, Len(s)))

\* an ASCII digit
IsDigit(c) == IndexIn(Digits, c) > 0

\* a character of the regex class \d
IsDecimal(c) == IsDigit(c) \/ c = DECIMAL

HexDigits == "0123456789ABCDEF"

\* the value of a hexadecimal digit, either case; -1 for another character
HexVal(c) ==
    IF IndexIn(HexDigits, c) > 0 THEN IndexIn(HexDigits, c) - 1
    ELSE IF IndexIn("abcdef", c) > 0 THEN IndexIn("abcdef", c) + 9
    ELSE -1

\* a character of the regex class \w
IsWordChar(c) ==
    \/ IndexIn(UpperAlpha, c) > 0 \/ IndexIn(LowerAlpha, c) > 0 \/ IsDigit(c) \/ c = "_"
    \/ c \in {LETTER, DECIMAL, LONG_S, DOTTED_I}

\* sub occurs in s starting at position i
MatchAt(s, sub, i) ==
    /\ i >= 1
    /\ i + Len(sub) - 1 <= Len(s)
    /\ SubSeq(s, i, i + Len(sub) - 1) = sub

\* Python's `sub in s`
Contains(s, sub) == \E i \in 1..(Len(s) + 1) : MatchAt(s, sub, i)

\* the regex assertion \b between positions i-1 and i of s
WordBoundary(s, i) ==
    LET before == i >= 2 /\ i - 1 <= Len(s) /\ IsWordChar(CharAt(s, i - 1))
        after  == i >= 1 /\ i <= Len(s) /\ IsWordChar(CharAt(s, i))
    IN before # after

RECURSIVE StrToInt(_)
\* int() of a string of decimal digits
StrToInt(s) ==
    IF s = "" THEN 0
    ELSE 10 * StrToInt(SubSeq(s, 1, Len(s) - 1)) + (IndexIn(Digits, CharAt(s, Len(s))) - 1)

RECURSIVE SeqOfSet(_)
\* the elements of a finite set, in some order, as a sequence
SeqOfSet(S) ==
    IF S = {} THEN <<>>
    ELSE LET x == CHOOSE y \in S : TRUE IN <<x>> \o SeqOfSet(S \ {x})

RECURSIVE Concats(_, _)
\* the strings made of at most n fragments of F, concatenated
Concats(F, n) ==
    IF n = 0 THEN {""}
    ELSE LET shorter == Concats(F, n - 1)
         IN shorter \cup {a \o b : a \in shorter, b \in F}

-----------------------------------------------------------------------------
(* Degree/year parser: profile.py, _parse_bachelors_year_from_text *)

BACHELORS_KW ==
    {"bachelor", "b.s.", "b.s", "b.a.", "b.a", "b.sc", "b.eng",
     "b.e.", "btech", "b.tech", "(bs)", "(ba)", "bs ", "ba "}

skip_patterns ==
    {"master", "m.s.", "m.s", "m.a.", "m.a", "mba", "m.b.a",
     "ph.d", "phd", "doctor", "associate", "a.s.", "a.a.",
     "high school", "diploma", "certificate", "bootcamp",
     "hack reactor", "app academy", "flatiron", "general assembly",
     "graddip", "postgrad"}

\* a match of the regex \b(19|20)\d{2}\b starts at position i of text
YearMatchAt(text, i) ==
    /\ i + 3 <= Len(text)
    /\ WordBoundary(text, i)
    /\ SubSeq(text, i, i + 1) \in {"19", "20"}
    /\ IsDecimal(CharAt(text, i + 2))
    /\ IsDecimal(CharAt(text, i + 3))
    /\ WordBoundary(text, i + 4)

\* the start positions of the matches, left to right (matches cannot overlap:
\* each is delimited by word boundaries)
YearMatchStarts(text) ==
    LET P == {i \in 1..Len(text) : YearMatchAt(text, i)}
        RECURSIVE Asc(_)
        Asc(S) == IF S = {} THEN <<>>
                  ELSE LET m == CHOOSE x \in S : \A y \in S : x <= y
                       IN <<m>> \o Asc(S \ {m})
    IN Asc(P)

\* re.findall with one capturing group returns, per match, the text of that
\* group: here the two characters matched by (19|20)
FindallYears(text) ==
    LET starts == YearMatchStarts(text)
    IN [k \in 1..Len(starts) |-> SubSeq(text, starts[k], starts[k] + 1)]

\* the parser with the skip patterns looked up in the text as written instead
\* of in its lower-cased form
ParseBachelorsYear_SkipCaseSensitive(text) ==
    IF text = "" THEN None
    ELSE LET text_lower == Lower(text)
             years == FindallYears(text)
         IN IF \E skip \in skip_patterns : Contains(text, skip) THEN None
            ELSE IF ~(\E kw \in BACHELORS_KW : Contains(text_lower, kw)) THEN None
            ELSE IF years # <<>> THEN Some(StrToInt(years[Len(years)]))
            ELSE None

ParseBachelorsYearFromText(text) ==
    IF text = "" THEN None
    ELSE LET text_lower == Lower(text)
             years == FindallYears(text)
         IN IF \E skip \in skip_patterns : Contains(text_lower, skip) THEN None
            ELSE IF ~(\E kw \in BACHELORS_KW : Contains(text_lower, kw)) THEN None
            ELSE IF years # <<>> THEN Some(StrToInt(years[Len(years)]))
            ELSE None

\* bounds of the texts tried
MaxTextFrags == 3

TextFrags ==
    {"Bachelor of Science", "(BS)", " ", "2012 - ", "2017", "1999",
     "x", "Master", "MBA"}

ParserTexts == Concats(TextFrags, MaxTextFrags)

ParserIdle == pText = "" /\ pOut = <<>>

ParserInit == pText \in ParserTexts /\ pOut = <<>>

ParseText ==
    /\ pOut = <<>>
    /\ pOut' = <<ParseBachelorsYearFromText(pText)>>
    /\ UNCHANGED pText

\* the text has a bachelor's keyword, no disqualifying substring and a year token
HasBachelorsKw(text) == \E kw \in BACHELORS_KW : Contains(Lower(text), kw)
HasSkipPattern(text) == \E skip \in skip_patterns : Contains(Lower(text), skip)

\* the four digits of the last 19xx/20xx token of the text, as a number
LastYearToken(text) ==
    LET starts == YearMatchStarts(text)
        p == starts[Len(starts)]
    IN StrToInt(SubSeq(text, p, p + 3))

(* C1: for every text with a bachelor's keyword, no disqualifying substring
   and at least one 19xx/20xx year token, the parser returns the full
   four-digit value of the last year token of the text. *)
C1_ReturnsLastYear ==
    (/\ pOut # <<>>
     /\ HasBachelorsKw(pText)
     /\ ~HasSkipPattern(pText)
     /\ YearMatchStarts(pText) # <<>>)
    => pOut[1] = Some(LastYearToken(pText))

(* C2: for every text that contains a disqualifying degree-level substring
   the parser returns none, whether or not a bachelor's keyword and year
   tokens are present too. *)
C2_SkipPatternGivesNone ==
    (pOut # <<>> /\ HasSkipPattern(pText)) => pOut[1] = None

\* a parsed text with a disqualifying substring, a bachelor's keyword and a year
C2_Witness ==
    /\ pOut = <<None>>
    /\ HasSkipPattern(pText)
    /\ HasBachelorsKw(pText)
    /\ YearMatchStarts(pText) # <<>>

-----------------------------------------------------------------------------
(* Title matcher: filters.py, title_matches_whitelist *)

TITLE_BLACKLIST ==
    {"director", "vice president", "vp", "advocate", "advocacy",
     "merchandising", "operations", "professional services"}

TITLE_REVIEW_FLAGS == {"head of"}

\* the review note of a soft flag (the source writes an em dash where this
\* model writes "--")
ReviewNoteOf(phrase) == "title: '" \o phrase \o "' -- review"

\* Python truthiness of a whitelist: None and the empty set are false
WhitelistTruthy(whitelist) == whitelist # None /\ whitelist[1] # {}

\* the matcher with the whitelist consulted first: a whitelisted title is
\* accepted before the blacklist is looked at
TitleMatches_WhitelistFirst(title, whitelist) ==
    LET title_lower == Lower(title)
        flags == {p \in TITLE_REVIEW_FLAGS : Contains(title_lower, p)}
    IN IF WhitelistTruthy(whitelist)
          /\ \E phrase \in whitelist[1] : Contains(title_lower, phrase)
       THEN IF flags # {} THEN <<TRUE, ReviewNoteOf(CHOOSE p \in flags : TRUE)>>
            ELSE <<TRUE, "">>
       ELSE IF \E phrase \in TITLE_BLACKLIST : Contains(title_lower, phrase)
       THEN <<FALSE, "">>
       ELSE IF WhitelistTruthy(whitelist) THEN <<FALSE, "">>
       ELSE IF flags # {} THEN <<TRUE, ReviewNoteOf(CHOOSE p \in flags : TRUE)>>
       ELSE <<TRUE, "">>

\* the matcher without the `whitelist and` guard: an absent or empty whitelist
\* has no phrase that matches, so every title is rejected
TitleMatches_NoEmptyGuard(title, whitelist) ==
    LET title_lower == Lower(title)
        flags == {p \in TITLE_REVIEW_FLAGS : Contains(title_lower, p)}
        phrases == IF whitelist = None THEN {} ELSE whitelist[1]
    IN IF \E phrase \in TITLE_BLACKLIST : Contains(title_lower, phrase)
       THEN <<FALSE, "">>
       ELSE IF ~(\E phrase \in phrases : Contains(title_lower, phrase))
       THEN <<FALSE, "">>
       ELSE IF flags # {} THEN <<TRUE, ReviewNoteOf(CHOOSE p \in flags : TRUE)>>
       ELSE <<TRUE, "">>

\* the matcher with the soft flags looked at before the whitelist: a flagged
\* title is accepted whether the whitelist matches or not
TitleMatches_FlagBeforeWhitelist(title, whitelist) ==
    LET title_lower == Lower(title)
        flags == {p \in TITLE_REVIEW_FLAGS : Contains(title_lower, p)}
    IN IF \E phrase \in TITLE_BLACKLIST : Contains(title_lower, phrase)
       THEN <<FALSE, "">>
       ELSE IF flags # {} THEN <<TRUE, ReviewNoteOf(CHOOSE p \in flags : TRUE)>>
       ELSE IF WhitelistTruthy(whitelist)
               /\ ~(\E phrase \in whitelist[1] : Contains(title_lower, phrase))
       THEN <<FALSE, "">>
       ELSE <<TRUE, "">>

\* returns <<passes, review_note>>
TitleMatchesWhitelist(title, whitelist) ==
    LET title_lower == Lower(title)
        flags == {p \in TITLE_REVIEW_FLAGS : Contains(title_lower, p)}
    IN IF \E phrase \in TITLE_BLACKLIST : Contains(title_lower, phrase)
       THEN <<FALSE, "">>
       ELSE IF WhitelistTruthy(whitelist)
               /\ ~(\E phrase \in whitelist[1] : Contains(title_lower, phrase))
       THEN <<FALSE, "">>
       ELSE IF flags # {} THEN <<TRUE, ReviewNoteOf(CHOOSE p \in flags : TRUE)>>
       ELSE <<TRUE, "">>

\* bounds of the titles tried
MaxTitleFrags == 2

TitleFrags ==
    {"Director", "SVP", "Software Engineer", "Head of ", " ", "DevOps",
     "Operations", "Developer Advocate", "Senior ", "of Engineering"}

MatcherTitles == Concats(TitleFrags, MaxTitleFrags)

MatcherWhitelists ==
    {None, Some({}), Some({"software engineer"}), Some({"engineer", "head of"}),
     Some({"director"}), Some({"devops", "svp"})}

TitleIdle == tTitle = "" /\ tWl = None /\ tOut = <<>>

TitleInit == tTitle \in MatcherTitles /\ tWl \in MatcherWhitelists /\ tOut = <<>>

MatchTitle ==
    /\ tOut = <<>>
    /\ tOut' = <<TitleMatchesWhitelist(tTitle, tWl)>>
    /\ UNCHANGED <<tTitle, tWl>>

IsBlacklisted(title) == \E phrase \in TITLE_BLACKLIST : Contains(Lower(title), phrase)

TitleMatched == tOut # <<>>

(* C3: a title that contains a blacklist phrase (case-insensitively) is
   rejected with an empty review note, whatever the whitelist: absent, empty,
   or holding phrases that match the same title. *)
C3_BlacklistRejects ==
    (TitleMatched /\ IsBlacklisted(tTitle)) => tOut[1] = <<FALSE, "">>

\* a blacklisted title, matched against a whitelist one of whose phrases it contains
C3_Witness ==
    /\ TitleMatched
    /\ IsBlacklisted(tTitle)
    /\ tWl # None
    /\ \E phrase \in tWl[1] : Contains(Lower(tTitle), phrase)
    /\ tOut[1] = <<FALSE, "">>

(* C4: with the whitelist empty or absent, every title that contains no
   blacklist phrase passes. *)
C4_NoWhitelistPasses ==
    (TitleMatched /\ tWl \in {None, Some({})} /\ ~IsBlacklisted(tTitle))
    => tOut[1][1] = TRUE

\* a non-blacklisted title passed under the empty whitelist, another under none
C4_Witness ==
    /\ TitleMatched
    /\ tWl = Some({})
    /\ tTitle # ""
    /\ ~IsBlacklisted(tTitle)
    /\ tOut[1][1] = TRUE

\* the title satisfies the whitelist: there is none, it is empty, or one of
\* its phrases is in the title
SatisfiesWhitelist(title, wl) ==
    wl \in {None, Some({})} \/ \E phrase \in wl[1] : Contains(Lower(title), phrase)

IsSoftFlagged(title) == \E phrase \in TITLE_REVIEW_FLAGS : Contains(Lower(title), phrase)

(* C24: the rules apply in the order blacklist, whitelist, soft flag. A
   title is accepted exactly when it has no blacklist phrase and satisfies
   the whitelist; an accepted title has a review note, "title: 'head of' --
   review", exactly when it has a soft-flag phrase, and the empty note
   otherwise; every rejected title has the empty note. *)
C24_RulePrecedence ==
    TitleMatched =>
       LET passes == tOut[1][1]
           note == tOut[1][2]
       IN /\ passes = (~IsBlacklisted(tTitle) /\ SatisfiesWhitelist(tTitle, tWl))
          /\ (passes /\ IsSoftFlagged(tTitle)) => note = "title: 'head of' -- review"
          /\ (passes /\ ~IsSoftFlagged(tTitle)) => note = ""
          /\ ~passes => note = ""

\* a soft-flagged title that no phrase of the whitelist matches is rejected
\* with the empty note: the whitelist is applied before the soft flag
C24_Witness ==
    /\ TitleMatched /\ IsSoftFlagged(tTitle) /\ ~IsBlacklisted(tTitle)
    /\ tWl = Some({"software engineer"})
    /\ ~SatisfiesWhitelist(tTitle, tWl)
    /\ tOut[1] = <<FALSE, "">>

-----------------------------------------------------------------------------
(* Education classification: profile_navigation.py, _classify_education and
   _extract_education_from_panel *)

\* the alternatives of a regex: a literal with an optional \b before and after
Alt(lead, lit, trail) == [lead |-> lead, lit |-> lit, trail |-> trail]

BACHELOR_RE ==
    {Alt(TRUE, "bachelor", FALSE), Alt(TRUE, "bs", TRUE), Alt(TRUE, "ba", TRUE),
     Alt(FALSE, "b.s", TRUE), Alt(FALSE, "b.a", TRUE), Alt(FALSE, "b.sc", TRUE),
     Alt(FALSE, "b.eng", TRUE), Alt(FALSE, "b.e", TRUE), Alt(FALSE, "btech", TRUE),
     Alt(FALSE, "b.tech", TRUE)}

MASTER_RE ==
    {Alt(TRUE, "master", FALSE), Alt(TRUE, "mba", TRUE), Alt(FALSE, "m.b.a", TRUE),
     Alt(FALSE, "m.s", TRUE), Alt(FALSE, "m.a", TRUE), Alt(FALSE, "m.eng", TRUE),
     Alt(FALSE, "m.sc", TRUE), Alt(FALSE, "mtech", TRUE), Alt(FALSE, "m.tech", TRUE)}

\* the letter a character is matched as under re.IGNORECASE
FoldChar(c) ==
    IF c = LONG_S THEN "s" ELSE IF c = DOTTED_I THEN c ELSE LowerChar(c)

RECURSIVE Fold(_)
\* the text as re.IGNORECASE matches it, character by character
Fold(s) == IF s = "" THEN "" ELSE FoldChar(CharAt(s, 1)) \o Fold(SubSeq(s, 2, Len(s)))

\* RE.search(s) finds a match, with re.IGNORECASE
ReSearch(RE, s) ==
    LET low == Fold(s)
    IN \E alt \in RE : \E i \in 1..Len(low) :
          /\ MatchAt(low, alt.lit, i)
          /\ alt.lead => WordBoundary(low, i)
          /\ alt.trail => WordBoundary(low, i + Len(alt.lit))

\* [e for e in entries if BACHELOR_RE.search(e.get('degree', ''))]
Bachelors(entries) == SelectSeq(entries, LAMBDA e : ReSearch(BACHELOR_RE, e.degree))

\* the classification with the upper bound of the year range excluded
ClassifyEducation_UpperExclusive(entries, has_education) ==
    LET bachelors == Bachelors(entries)
        has_master == \E k \in 1..Len(entries) : ReSearch(MASTER_RE, entries[k].degree)
        grad_year == bachelors[1].year
    IN IF ~has_education THEN <<TRUE, "no education", None>>
       ELSE IF Len(bachelors) = 0
       THEN IF has_master THEN <<TRUE, "No bachelor's - review", None>>
            ELSE <<FALSE, "", None>>
       ELSE IF Len(bachelors) > 1 THEN <<TRUE, "multi bachelor - review", None>>
       ELSE IF grad_year = None THEN <<TRUE, "no edu year - review", None>>
       ELSE IF 2010 <= grad_year[1] /\ grad_year[1] < 2024 THEN <<TRUE, "", grad_year>>
       ELSE <<FALSE, "", grad_year>>

\* the classification with the year of a single bachelor's entry not compared
\* with the range
ClassifyEducation_RangeUnchecked(entries, has_education) ==
    LET bachelors == Bachelors(entries)
        has_master == \E k \in 1..Len(entries) : ReSearch(MASTER_RE, entries[k].degree)
        grad_year == bachelors[1].year
    IN IF ~has_education THEN <<TRUE, "no education", None>>
       ELSE IF Len(bachelors) = 0
       THEN IF has_master THEN <<TRUE, "No bachelor's - review", None>>
            ELSE <<FALSE, "", None>>
       ELSE IF Len(bachelors) > 1 THEN <<TRUE, "multi bachelor - review", None>>
       ELSE IF grad_year = None THEN <<TRUE, "no edu year - review", None>>
       ELSE <<TRUE, "", grad_year>>

\* returns <<should_scrape, review_note, grad_year>>
ClassifyEducation(entries, has_education) ==
    LET bachelors == Bachelors(entries)
        has_master == \E k \in 1..Len(entries) : ReSearch(MASTER_RE, entries[k].degree)
        grad_year == bachelors[1].year
    IN IF ~has_education THEN <<TRUE, "no education", None>>
       ELSE IF Len(bachelors) = 0
       THEN IF has_master THEN <<TRUE, "No bachelor's - review", None>>
            ELSE <<FALSE, "", None>>
       ELSE IF Len(bachelors) > 1 THEN <<TRUE, "multi bachelor - review", None>>
       ELSE IF grad_year = None THEN <<TRUE, "no edu year - review", None>>
       ELSE IF 2010 <= grad_year[1] /\ grad_year[1] <= 2024 THEN <<TRUE, "", grad_year>>
       ELSE <<FALSE, "", grad_year>>

\* txt.match(/\d{4}/) then parseInt: the first four digits in a row, or null
FirstFourDigits(txt) ==
    LET P == {i \in 1..Len(txt) :
                 i + 3 <= Len(txt) /\ \A k \in 0..3 : IsDigit(CharAt(txt, i + k))}
        p == CHOOSE i \in P : \A j \in P : i <= j
    IN IF P = {} THEN None ELSE Some(StrToInt(SubSeq(txt, p, p + 3)))

\* A row li[data-live-test-education-item] of the DOM is [degree, time]: the
\* trimmed text of its degree element ("" without one) and the trimmed text of
\* the last <time> of its dates cell ("" without one).
\* The script evaluated in the page: the entries pushed for the rows.
EntriesOf(items) ==
    [k \in 1..Len(items) |->
        [degree |-> items[k].degree, year |-> FirstFourDigits(items[k].time)]]

\* the script's result: {entries, hasEducation, hasShowMore}
EduEvaluate(items, showMoreBtn) ==
    IF Len(items) = 0
    THEN [entries |-> <<>>, hasEducation |-> FALSE, hasShowMore |-> FALSE]
    ELSE IF showMoreBtn
    THEN [entries |-> <<>>, hasEducation |-> TRUE, hasShowMore |-> TRUE]
    ELSE [entries |-> EntriesOf(items), hasEducation |-> TRUE, hasShowMore |-> FALSE]

\* the extraction with a truncated education list let through instead of skipped
ExtractEducation_ShowMoreAllowed(items, showMoreBtn, raises) ==
    IF raises THEN [data |-> None, out |-> <<TRUE, "no education", None>>]
    ELSE LET edu_data == EduEvaluate(items, showMoreBtn)
         IN [data |-> Some(edu_data),
             out  |-> IF edu_data.hasShowMore THEN <<TRUE, "", None>>
                      ELSE ClassifyEducation(edu_data.entries, edu_data.hasEducation)]

\* the extraction with a failed read of the education rejecting the candidate
ExtractEducation_RejectOnError(items, showMoreBtn, raises) ==
    IF raises THEN [data |-> None, out |-> <<FALSE, "", None>>]
    ELSE LET edu_data == EduEvaluate(items, showMoreBtn)
         IN [data |-> Some(edu_data),
             out  |-> IF edu_data.hasShowMore THEN <<FALSE, "", None>>
                      ELSE ClassifyEducation(edu_data.entries, edu_data.hasEducation)]

\* _extract_education_from_panel on a panel with these rows and this button;
\* `raises`: page.evaluate raises. The result is [data, out]: the education
\* data read (None when the read raised) and the triple returned.
ExtractEducationFromPanel(items, showMoreBtn, raises) ==
    IF raises THEN [data |-> None, out |-> <<TRUE, "no education", None>>]
    ELSE LET edu_data == EduEvaluate(items, showMoreBtn)
         IN [data |-> Some(edu_data),
             out  |-> IF edu_data.hasShowMore THEN <<FALSE, "", None>>
                      ELSE ClassifyEducation(edu_data.entries, edu_data.hasEducation)]

\* bounds of the education rows tried
MaxEduItems == 2

EduDegrees == {"Bachelor of Science", "MBA", "BSc", "B.S., M.S."}
EduTimes == {"", "2009", "2010", "2024", "2025"}
EduItemPool == [degree : EduDegrees, time : EduTimes]

RECURSIVE SeqsUpTo(_, _)
\* the sequences of at most n elements of S
SeqsUpTo(S, n) ==
    IF n = 0 THEN {<<>>}
    ELSE LET shorter == SeqsUpTo(S, n - 1)
         IN shorter \cup {Append(q, x) : q \in shorter, x \in S}

EduIdle ==
    eCall = "none" /\ eItems = <<>> /\ eFlag = FALSE /\ eRaises = FALSE /\ eOut = <<>>

EduInit ==
    /\ eCall \in {"classify", "extract"}
    /\ eItems \in SeqsUpTo(EduItemPool, MaxEduItems)
    /\ eFlag \in BOOLEAN
    /\ eRaises \in (IF eCall = "extract" THEN BOOLEAN ELSE {FALSE})
    /\ eOut = <<>>

\* a direct call _classify_education(entries, has_education)
ClassifyCall ==
    /\ eCall = "classify" /\ eOut = <<>>
    /\ eOut' = <<ClassifyEducation(EntriesOf(eItems), eFlag)>>
    /\ UNCHANGED <<eCall, eItems, eFlag, eRaises>>

\* a call _extract_education_from_panel(page)
ExtractEducationCall ==
    /\ eCall = "extract" /\ eOut = <<>>
    /\ eOut' = <<ExtractEducationFromPanel(eItems, eFlag, eRaises)>>
    /\ UNCHANGED <<eCall, eItems, eFlag, eRaises>>

IsBachelorEntry(e) == ReSearch(BACHELOR_RE, e.degree)
IsMasterEntry(e) == ReSearch(MASTER_RE, e.degree)

\* the row of the decision table that applies to the entries
DecisionTable(entries, has_education) ==
    LET B == {k \in 1..Len(entries) : IsBachelorEntry(entries[k])}
        M == {k \in 1..Len(entries) : IsMasterEntry(entries[k])}
        one == entries[CHOOSE k \in B : TRUE]
    IN CASE ~has_education -> <<TRUE, "no education", None>>
         [] has_education /\ Cardinality(B) = 1 /\ one.year # None ->
               <<(2010 <= one.year[1] /\ one.year[1] <= 2024), "", one.year>>
         [] has_education /\ Cardinality(B) = 1 /\ one.year = None ->
               <<TRUE, "no edu year - review", None>>
         [] has_education /\ Cardinality(B) > 1 -> <<TRUE, "multi bachelor - review", None>>
         [] has_education /\ B = {} /\ M # {} -> <<TRUE, "No bachelor's - review", None>>
         [] has_education /\ B = {} /\ M = {} -> <<FALSE, "", None>>

(* C5: _classify_education returns exactly the triple of the decision table:
   no education section -> (true, "no education", none); one bachelor's entry
   with a year -> (2010 <= year <= 2024, "", year); one bachelor's entry
   without a year -> (true, "no edu year - review", none); several bachelor's
   entries -> (true, "multi bachelor - review", none); no bachelor's but a
   master's-level entry -> (true, "No bachelor's - review", none); neither ->
   (false, "", none). *)
C5_DecisionTable ==
    (eCall = "classify" /\ eOut # <<>>)
    => eOut[1] = DecisionTable(EntriesOf(eItems), eFlag)

\* a single bachelor's entry of the last year of the range, among two entries
C5_Witness ==
    /\ eCall = "classify" /\ eOut # <<>>
    /\ Len(eItems) = 2
    /\ eOut[1] = <<TRUE, "", Some(2024)>>

(* C6: whenever the education data read from the panel carries the "more
   entries truncated" indicator, the education classification is
   (false, "", none), whatever education rows the panel has. *)
C6_ShowMoreSkips ==
    (/\ eCall = "extract" /\ eOut # <<>>
     /\ eOut[1].data # None
     /\ eOut[1].data[1].hasShowMore)
    => eOut[1].out = <<FALSE, "", None>>

\* a truncated panel whose visible rows alone would have been accepted
C6_Witness ==
    /\ eCall = "extract" /\ eOut # <<>>
    /\ eOut[1].data # None
    /\ eOut[1].data[1].hasShowMore
    /\ ClassifyEducation(EntriesOf(eItems), TRUE)[1] = TRUE
    /\ eOut[1].out = <<FALSE, "", None>>

-----------------------------------------------------------------------------
(* Location normalizer: utils.py, normalize_location *)

NYC_ALIASES ==
    {"new york", "brooklyn", "queens", "bronx", "manhattan",
     "staten island", "jersey city", "hoboken", "newark",
     "yonkers", "white plains", "stamford", "new rochelle"}

\* SF_ALIASES in the source (a name that starts with SF_ reads as a fairness operator)
ALIASES_SF ==
    {"san francisco", "san jose", "oakland", "berkeley",
     "palo alto", "mountain view", "sunnyvale", "santa clara",
     "redwood city", "menlo park", "cupertino", "fremont",
     "san mateo", "daly city", "south san francisco",
     "hayward", "milpitas", "campbell", "san ramon"}

\* the characters str.strip() removes: those with str.isspace()
Whitespace == {" ", "\t", "\n", "\r", "\f", VT, FS, GS, RS, US, LINE_SEP, NBSP}

RECURSIVE LStripChars(_, _)
LStripChars(s, chars) ==
    IF s # "" /\ CharAt(s, 1) \in chars THEN LStripChars(SubSeq(s, 2, Len(s)), chars) ELSE s

RECURSIVE RStripChars(_, _)
RStripChars(s, chars) ==
    IF s # "" /\ CharAt(s, Len(s)) \in chars
    THEN RStripChars(SubSeq(s, 1, Len(s) - 1), chars) ELSE s

\* str.strip(chars)
StripChars(s, chars) == RStripChars(LStripChars(s, chars), chars)

\* str.strip()
Strip(s) == StripChars(s, Whitespace)

\* raw.split(",")[0]
BeforeFirstComma(raw) ==
    LET P == {i \in 1..Len(raw) : CharAt(raw, i) = ","}
    IN IF P = {} THEN raw
       ELSE SubSeq(raw, 1, (CHOOSE i \in P : \A j \in P : i <= j) - 1)

\* the normalizer with the Bay-Area aliases looked at before the NYC aliases
NormalizeLocation_BayAreaFirst(raw) ==
    LET lower == Strip(Lower(raw))
    IN IF \E alias \in ALIASES_SF : Contains(lower, alias) THEN "SF"
       ELSE IF \E alias \in NYC_ALIASES : Contains(lower, alias) THEN "NYC"
       ELSE Strip(BeforeFirstComma(raw))

NormalizeLocation(raw) ==
    LET lower == Strip(Lower(raw))
    IN IF \E alias \in NYC_ALIASES : Contains(lower, alias) THEN "NYC"
       ELSE IF \E alias \in ALIASES_SF : Contains(lower, alias) THEN "SF"
       ELSE Strip(BeforeFirstComma(raw))

\* bound of the locations tried
MaxLocFrags == 3

\* the fragments: names, a comma, and whitespace of every kind around a name
LocFrags ==
    {"Brooklyn", "OAKLAND", ", ", "\f" \o US \o "Austin" \o NBSP \o " ", "new york",
     "TX" \o LINE_SEP}

Locations == Concats(LocFrags, MaxLocFrags)

LocationIdle == lRaw = "" /\ lOut = None

LocationInit == lRaw \in Locations /\ lOut = None

\* a call normalize_location(raw)
NormalizeCall ==
    /\ lOut = None
    /\ lOut' = Some(NormalizeLocation(lRaw))
    /\ UNCHANGED lRaw

\* an alias of the set is in s, whatever the case of the letters of s
HasAlias(s, aliases) ==
    \E alias \in aliases : \E i \in 1..Len(s) :
        /\ i + Len(alias) - 1 <= Len(s)
        /\ Lower(SubSeq(s, i, i + Len(alias) - 1)) = alias

\* the part of s before its first comma (s itself without a comma)
IsHeadOf(head, s) ==
    \/ (\A k \in 1..Len(s) : CharAt(s, k) # ",") /\ head = s
    \/ \E k \in 1..Len(s) :
          /\ CharAt(s, k) = ","
          /\ \A j \in 1..(k - 1) : CharAt(s, j) # ","
          /\ head = SubSeq(s, 1, k - 1)

\* t is s without its leading and trailing whitespace
IsTrimOf(t, s) ==
    \E i \in 0..Len(s) : \E j \in 0..(Len(s) - i) :
        /\ t = SubSeq(s, i + 1, Len(s) - j)
        /\ \A k \in 1..i : CharAt(s, k) \in Whitespace
        /\ \A k \in (Len(s) - j + 1)..Len(s) : CharAt(s, k) \in Whitespace
        /\ t # "" => (CharAt(t, 1) \notin Whitespace /\ CharAt(t, Len(t)) \notin Whitespace)

(* C23: normalize_location returns "NYC" when an NYC alias is in the input
   in any letter case; otherwise "SF" when a Bay-Area alias is; otherwise the
   input before its first comma, without leading and trailing whitespace.
   An input with aliases of both lists gives "NYC". *)
C23_NormalizeLocation ==
    lOut # None =>
       IF HasAlias(lRaw, NYC_ALIASES) THEN lOut[1] = "NYC"
       ELSE IF HasAlias(lRaw, ALIASES_SF) THEN lOut[1] = "SF"
       ELSE \E head \in {SubSeq(lRaw, 1, n) : n \in 0..Len(lRaw)} :
               IsHeadOf(head, lRaw) /\ IsTrimOf(lOut[1], head)

\* a location with a Bay-Area alias before an NYC alias: "NYC"
C23_Witness ==
    /\ lOut = Some("NYC")
    /\ lRaw = "OAKLAND, Brooklyn"

-----------------------------------------------------------------------------
(* Panel extractor: profile_navigation.py, _extract_from_open_panel and
   _get_public_url_from_panel.

   An open panel is a record:
     name, title, company, location : the fields the panel script reads
     items, showMoreBtn             : its education rows and "See more" button
     pubButton                      : it has the "Public profile" button
     link      : the href of the link revealed by the button: None without a
                 link, Some("") for a link without href
     fallback  : the href of the first a[href*="linkedin.com/in/"], or None
     fault     : the step of this extraction at which the page driver (or the
                 import of the title matcher) raises when it is reached:
                 "none", "panel", "edu", "title" or one of the calls of the
                 resolution of the public URL (UrlFaults)

   The interactions with the page are recorded in order: "sleep" is a pacing
   delay, "click:..." a click, "key:..." a key press, "screenshot". *)

\* datetime.now().year
CurrentYear == 2026

InPrefix == "linkedin.com/in/"

\* the characters of [\w-]
IsHandleChar(c) == IsWordChar(c) \/ c = "-"

RECURSIVE HandleEnd(_, _)
\* the end of the longest run of handle characters of url that starts at i
HandleEnd(url, i) ==
    IF i <= Len(url) /\ IsHandleChar(CharAt(url, i)) THEN HandleEnd(url, i + 1) ELSE i - 1

\* re.search(r'linkedin\.com/in/([\w-]+)', url): canonical form, or url as is
NormalizeUrl(url) ==
    LET P == {i \in 1..Len(url) :
                 /\ MatchAt(url, InPrefix, i)
                 /\ i + Len(InPrefix) <= Len(url)
                 /\ IsHandleChar(CharAt(url, i + Len(InPrefix)))}
        p == (CHOOSE i \in P : \A j \in P : i <= j) + Len(InPrefix)
    IN IF P = {} THEN url
       ELSE "https://www.linkedin.com/in/" \o SubSeq(url, p, HandleEnd(url, p))

\* the driver calls of _get_public_url_from_panel at which the driver can
\* raise: the query for the button, the click, the query for the revealed
\* link, the read of its href, the Escape key press and the fallback scan
UrlFaults ==
    {"url_button", "url_click", "url_link", "url_href", "url_escape", "url_fallback"}

\* _get_public_url_from_panel: [url, ui, raised]. The whole body is inside
\* one try: when the driver raises at the call named by fault (and that call
\* is reached) the function returns "" and the interactions made before that
\* call stay made.
GetPublicUrlFromPanel(panel, fault) ==
    LET fallbackUrl == IF panel.fallback # None /\ panel.fallback[1] # ""
                       THEN NormalizeUrl(panel.fallback[1]) ELSE ""
        Caught(ui) == [url |-> "", ui |-> ui, raised |-> TRUE]
        Ret(url, ui) == [url |-> url, ui |-> ui, raised |-> FALSE]
        Fallback(ui) == IF fault = "url_fallback" THEN Caught(ui) ELSE Ret(fallbackUrl, ui)
        clicked == <<"click:public_profile", "sleep">>
    IN IF fault = "url_button" THEN Caught(<<>>)
       ELSE IF ~panel.pubButton THEN Fallback(<<>>)
       ELSE IF fault = "url_click" THEN Caught(<<>>)
       ELSE IF fault = "url_link" THEN Caught(clicked)
       ELSE IF panel.link = None
       THEN IF fault = "url_escape" THEN Caught(clicked)
            ELSE Fallback(clicked \o <<"key:Escape">>)
       ELSE IF fault \in {"url_href", "url_escape"} THEN Caught(clicked)
       ELSE IF panel.link[1] # ""
       THEN Ret(NormalizeUrl(panel.link[1]), clicked \o <<"key:Escape", "sleep">>)
       ELSE Fallback(clicked \o <<"key:Escape", "sleep">>)

\* the merge with the title note taking the place of the education note
MergeReview_TitleReplaces(review_note, title_review) ==
    IF title_review # "" THEN title_review ELSE review_note

\* the merge of the education and the title review notes
MergeReview(review_note, title_review) ==
    IF title_review # ""
    THEN IF review_note # ""
         THEN StripChars(review_note \o "; " \o title_review, {";", " "})
         ELSE title_review
    ELSE review_note

\* the record returned for an extracted candidate
ProfileRecord(name, current_title, current_company, location, public_url, grad_year, review_note) ==
    [full_name |-> name,
     current_company |-> current_company,
     current_title |-> current_title,
     linkedin_public_url |-> public_url,
     location |-> NormalizeLocation(location),
     headline |-> IF current_title # "" /\ current_company # ""
                  THEN current_title \o " at " \o current_company
                  ELSE IF current_title # "" THEN current_title ELSE current_company,
     bachelors_grad_year |-> grad_year,
     years_experience |-> IF grad_year # None /\ grad_year[1] # 0
                          THEN Some(CurrentYear - grad_year[1]) ELSE None,
     recruiter_url |-> "",
     needs_review |-> (review_note # ""),
     review |-> review_note]

\* the extractor with the public URL resolved before the title check
ExtractFromOpenPanel_UrlBeforeTitle(panel, title_whitelist) ==
    LET name == Strip(panel.name)
        current_title == Strip(panel.title)
        edu == ExtractEducationFromPanel(panel.items, panel.showMoreBtn,
                                         panel.fault = "edu").out
        runTitle == title_whitelist # None /\ current_title # ""
        tm == IF runTitle THEN TitleMatchesWhitelist(current_title, title_whitelist)
              ELSE <<TRUE, "">>
        pub == GetPublicUrlFromPanel(panel, panel.fault)
        End(rec, ui, raised, gate) ==
            [rec |-> rec, ui |-> ui, raised |-> raised, gate |-> gate]
    IN IF panel.fault = "panel" THEN End(None, <<"sleep">>, "panel", "error")
       ELSE IF name = "" THEN End(None, <<"sleep", "screenshot">>, "none", "name")
       ELSE IF name = "LinkedIn Member" THEN End(None, <<"sleep">>, "none", "name")
       ELSE IF ~edu[1]
       THEN End(None, <<"sleep">>, IF panel.fault = "edu" THEN "edu" ELSE "none", "education")
       ELSE LET raised0 == IF panel.fault = "edu" THEN "edu" ELSE "none"
                raised1 == IF pub.raised THEN "url" ELSE raised0
            IN IF runTitle /\ panel.fault = "title"
               THEN End(None, <<"sleep">> \o pub.ui, "title", "error")
               ELSE IF ~tm[1] THEN End(None, <<"sleep">> \o pub.ui, raised1, "title")
               ELSE End(Some(ProfileRecord(name, current_title, Strip(panel.company),
                                           Strip(panel.location), pub.url, edu[3],
                                           MergeReview(edu[2], tm[2]))),
                        <<"sleep">> \o pub.ui, raised1, "emitted")

\* the extractor with the title matcher run whenever a title was read, with or
\* without a whitelist
ExtractFromOpenPanel_MatcherWithoutWhitelist(panel, title_whitelist) ==
    LET name == Strip(panel.name)
        current_title == Strip(panel.title)
        edu == ExtractEducationFromPanel(panel.items, panel.showMoreBtn,
                                         panel.fault = "edu").out
        runTitle == current_title # ""
        tm == IF runTitle THEN TitleMatchesWhitelist(current_title, title_whitelist)
              ELSE <<TRUE, "">>
        pub == GetPublicUrlFromPanel(panel, panel.fault)
        End(rec, ui, raised, gate) ==
            [rec |-> rec, ui |-> ui, raised |-> raised, gate |-> gate]
    IN IF panel.fault = "panel" THEN End(None, <<"sleep">>, "panel", "error")
       ELSE IF name = "" THEN End(None, <<"sleep", "screenshot">>, "none", "name")
       ELSE IF name = "LinkedIn Member" THEN End(None, <<"sleep">>, "none", "name")
       ELSE IF ~edu[1]
       THEN End(None, <<"sleep">>, IF panel.fault = "edu" THEN "edu" ELSE "none", "education")
       ELSE LET raised0 == IF panel.fault = "edu" THEN "edu" ELSE "none"
                raised1 == IF pub.raised THEN "url" ELSE raised0
            IN IF runTitle /\ panel.fault = "title"
               THEN End(None, <<"sleep">>, "title", "error")
               ELSE IF ~tm[1] THEN End(None, <<"sleep">>, raised0, "title")
               ELSE End(Some(ProfileRecord(name, current_title, Strip(panel.company),
                                           Strip(panel.location), pub.url, edu[3],
                                           MergeReview(edu[2], tm[2]))),
                        <<"sleep">> \o pub.ui, raised1, "emitted")

\* _extract_from_open_panel: [rec, ui, raised, gate]: the record returned (or
\* None), the interactions with the page, the step that raised ("none" when
\* no step did) and where the extraction ended: "name", "education" or "title"
\* for a candidate rejected by that check, "error" for an exception caught by
\* the extractor's own handler, "emitted" for a record.
ExtractFromOpenPanel(panel, title_whitelist) ==
    LET name == Strip(panel.name)
        current_title == Strip(panel.title)
        edu == ExtractEducationFromPanel(panel.items, panel.showMoreBtn,
                                         panel.fault = "edu").out
        runTitle == title_whitelist # None /\ current_title # ""
        tm == IF runTitle THEN TitleMatchesWhitelist(current_title, title_whitelist)
              ELSE <<TRUE, "">>
        pub == GetPublicUrlFromPanel(panel, panel.fault)
        End(rec, ui, raised, gate) ==
            [rec |-> rec, ui |-> ui, raised |-> raised, gate |-> gate]
    IN IF panel.fault = "panel" THEN End(None, <<"sleep">>, "panel", "error")
       ELSE IF name = "" THEN End(None, <<"sleep", "screenshot">>, "none", "name")
       ELSE IF name = "LinkedIn Member" THEN End(None, <<"sleep">>, "none", "name")
       ELSE IF ~edu[1]
       THEN End(None, <<"sleep">>, IF panel.fault = "edu" THEN "edu" ELSE "none", "education")
       ELSE LET raised0 == IF panel.fault = "edu" THEN "edu" ELSE "none"
                raised1 == IF pub.raised THEN "url" ELSE raised0
            IN IF runTitle /\ panel.fault = "title"
               THEN End(None, <<"sleep">>, "title", "error")
               ELSE IF ~tm[1] THEN End(None, <<"sleep">>, raised0, "title")
               ELSE End(Some(ProfileRecord(name, current_title, Strip(panel.company),
                                           Strip(panel.location), pub.url, edu[3],
                                           MergeReview(edu[2], tm[2]))),
                        <<"sleep">> \o pub.ui, raised1, "emitted")

\* bounds of the panels tried
MaxPanelItems == 1

\* the names: none, whitespace only, the placeholder, a name in whitespace
PanelNames == {"", US \o NBSP, "LinkedIn Member", "\f" \o US \o "Ann Lee" \o NBSP \o " "}
PanelTitles ==
    {"", "Software Engineer", "Director of Engineering", "Nurse", "Head of Engineering"}
PanelItemPool ==
    [degree : {"Bachelor of Science", "MBA"}, time : {"2017", "2009"}]
PanelFaults == {"none", "panel", "edu", "title"} \cup UrlFaults
PanelLinks == {None, Some(""), Some("https://www.linkedin.com/in/ann-lee-1?trk=x")}
PanelWhitelists == {None, Some({}), Some({"engineer"})}

PanelPool ==
    [name : PanelNames, title : PanelTitles, company : {"Acme"},
     location : {"Brooklyn, New York, United States"},
     items : SeqsUpTo(PanelItemPool, MaxPanelItems), showMoreBtn : BOOLEAN,
     pubButton : BOOLEAN, link : PanelLinks,
     fallback : {None, Some("https://linkedin.com/in/ann")},
     fault : PanelFaults]

NoPanel == [name |-> ""]

PanelIdle == xPanel = NoPanel /\ xWl = None /\ xOut = <<>>

PanelInit == xPanel \in PanelPool /\ xWl \in PanelWhitelists /\ xOut = <<>>

ExtractCall ==
    /\ xPanel # NoPanel /\ xOut = <<>>
    /\ xOut' = <<ExtractFromOpenPanel(xPanel, xWl)>>
    /\ UNCHANGED <<xPanel, xWl>>

\* the three gates, read off the panel
NameRejects(panel) == Strip(panel.name) \in {"", "LinkedIn Member"}

EducationRejects(panel) ==
    ~ExtractEducationFromPanel(panel.items, panel.showMoreBtn, panel.fault = "edu").out[1]

TitleRejects(panel, wl) ==
    /\ wl # None /\ Strip(panel.title) # ""
    /\ ~TitleMatchesWhitelist(Strip(panel.title), wl)[1]

\* the clicks of the public-profile reveal among the interactions
RevealClicked(ui) == \E k \in 1..Len(ui) : ui[k] = "click:public_profile"

(* C7: a candidate rejected by the name check, by the education
   classification or by the title matcher gets no record and no click on the
   public-profile reveal; the reveal is clicked only after all three gates
   have passed. *)
C7_GatesBeforeReveal ==
    xOut # <<>> =>
       /\ (xPanel.fault # "panel" /\
           (NameRejects(xPanel) \/ EducationRejects(xPanel) \/ TitleRejects(xPanel, xWl)))
          => (xOut[1].rec = None /\ ~RevealClicked(xOut[1].ui))
       /\ RevealClicked(xOut[1].ui)
          => (/\ xPanel.fault # "panel"
              /\ ~NameRejects(xPanel)
              /\ ~EducationRejects(xPanel)
              /\ ~TitleRejects(xPanel, xWl))

\* a candidate with a name and an accepted education, rejected for its title,
\* whose panel has the reveal button: no record and no click
C7_Witness ==
    /\ xOut # <<>>
    /\ xPanel.pubButton /\ xPanel.fault = "none"
    /\ ~NameRejects(xPanel) /\ ~EducationRejects(xPanel)
    /\ TitleRejects(xPanel, xWl)
    /\ xOut[1].rec = None /\ ~RevealClicked(xOut[1].ui)

\* the title check of the extractor is not run: no whitelist was loaded, or
\* the title read from the panel is empty
TitleCheckOff(panel, wl) == wl = None \/ Strip(panel.title) = ""

(* C22: without a whitelist (none loaded) the panel extractor rejects no
   candidate for its title, a title with a blacklisted phrase included, and
   with a whitelist but an empty title it rejects none either: a candidate
   that passes the name check and the education classification gets its
   record, with the title as read. *)
C22_NoWhitelistNoTitleFilter ==
    (xOut # <<>> /\ TitleCheckOff(xPanel, xWl)) =>
       /\ xOut[1].gate # "title"
       /\ xOut[1].raised # "title"
       /\ (xPanel.fault # "panel" /\ ~NameRejects(xPanel) /\ ~EducationRejects(xPanel))
          => (/\ xOut[1].rec # None
              /\ xOut[1].rec[1].current_title = Strip(xPanel.title)
              /\ xOut[1].gate = "emitted")

\* a candidate with a blacklisted title, extracted without a whitelist: the
\* record is emitted
C22_Witness ==
    /\ xOut # <<>> /\ xWl = None
    /\ IsBlacklisted(Strip(xPanel.title))
    /\ xOut[1].rec # None
    /\ xOut[1].rec[1].current_title = "Director of Engineering"

\* the note of the education step for the panel
EducationNote(panel) ==
    ExtractEducationFromPanel(panel.items, panel.showMoreBtn, panel.fault = "edu").out[2]

\* the note of the title step for the panel ("" when the matcher is not run)
TitleNote(panel, wl) ==
    IF TitleCheckOff(panel, wl) THEN "" ELSE TitleMatchesWhitelist(Strip(panel.title), wl)[2]

\* the non-empty ones of two notes, joined by "; "
JoinNotes(a, b) ==
    IF a # "" /\ b # "" THEN a \o "; " \o b ELSE IF a # "" THEN a ELSE b

(* C26: the review note of an emitted record is the education note and the
   title note joined by "; " with the empty ones left out (the only
   non-empty one, or "" when both are empty), and needs_review is true
   exactly when that note is not empty. *)
C26_ReviewNoteMerge ==
    (xOut # <<>> /\ xOut[1].rec # None) =>
       LET rec == xOut[1].rec[1]
       IN /\ rec.review = JoinNotes(EducationNote(xPanel), TitleNote(xPanel, xWl))
          /\ rec.needs_review = (rec.review # "")

\* a record with both notes
C26_Witness ==
    /\ xOut # <<>> /\ xOut[1].rec # None
    /\ EducationNote(xPanel) = "No bachelor's - review"
    /\ TitleNote(xPanel, xWl) = "title: 'head of' -- review"
    /\ xOut[1].rec[1].review = "No bachelor's - review; title: 'head of' -- review"
    /\ xOut[1].rec[1].needs_review

(* C28: every record the panel extractor emits has a bachelor's graduation
   year within 2010..2024, or has no graduation year, a non-empty review
   note and needs_review true. *)
C28_YearOrReview ==
    (xOut # <<>> /\ xOut[1].rec # None) =>
       LET rec == xOut[1].rec[1]
       IN \/ /\ rec.bachelors_grad_year # None
             /\ 2010 <= rec.bachelors_grad_year[1] /\ rec.bachelors_grad_year[1] <= 2024
          \/ /\ rec.bachelors_grad_year = None
             /\ rec.review # ""
             /\ rec.needs_review

\* a record without a year and with the note "no education", from a panel
\* whose education could not be read
C28_Witness ==
    /\ xOut # <<>> /\ xOut[1].rec # None
    /\ xPanel.fault = "edu"
    /\ xPanel.items = <<[degree |-> "Bachelor of Science", time |-> "2009"]>>
    /\ xOut[1].rec[1].bachelors_grad_year = None
    /\ xOut[1].rec[1].review = "no education"

-----------------------------------------------------------------------------
(* Record filters: filters.py, apply_filters.
   A record is given by the fields the filter reads or writes and a name; the
   filter configuration by its three keys, None for a key that is absent. *)

\* Python truthiness of a configured year: None and 0 are false
YearSet(y) == y # None /\ y[1] # 0

\* filter_config.get("no_bachelors_action", "skip")
ActionOf(filter_config) ==
    IF filter_config.no_bachelors_action = None THEN "skip"
    ELSE filter_config.no_bachelors_action[1]

\* the filter with "include" as the action of a configuration that names none
ApplyFilters_DefaultInclude(records, filter_config) ==
    LET min_year == filter_config.bachelors_grad_year_min
        max_year == filter_config.bachelors_grad_year_max
        no_bachelors_action ==
            IF filter_config.no_bachelors_action = None THEN "include"
            ELSE filter_config.no_bachelors_action[1]
        Keep(p) ==
            IF p.bachelors_grad_year = None
            THEN no_bachelors_action \in {"include", "flag"}
            ELSE /\ ~(YearSet(min_year) /\ p.bachelors_grad_year[1] < min_year[1])
                 /\ ~(YearSet(max_year) /\ p.bachelors_grad_year[1] > max_year[1])
        Out(p) ==
            IF p.bachelors_grad_year = None /\ no_bachelors_action = "flag"
            THEN [p EXCEPT !.needs_review = TRUE] ELSE p
        kept == SelectSeq(records, Keep)
    IN IF ~YearSet(min_year) /\ ~YearSet(max_year) THEN records
       ELSE [k \in 1..Len(kept) |-> Out(kept[k])]

\* apply_filters(profiles, filter_config): the list returned (`records` is the
\* argument profiles)
ApplyFilters(records, filter_config) ==
    LET min_year == filter_config.bachelors_grad_year_min
        max_year == filter_config.bachelors_grad_year_max
        no_bachelors_action == ActionOf(filter_config)
        Keep(p) ==
            IF p.bachelors_grad_year = None
            THEN no_bachelors_action \in {"include", "flag"}
            ELSE /\ ~(YearSet(min_year) /\ p.bachelors_grad_year[1] < min_year[1])
                 /\ ~(YearSet(max_year) /\ p.bachelors_grad_year[1] > max_year[1])
        Out(p) ==
            IF p.bachelors_grad_year = None /\ no_bachelors_action = "flag"
            THEN [p EXCEPT !.needs_review = TRUE] ELSE p
        kept == SelectSeq(records, Keep)
    IN IF ~YearSet(min_year) /\ ~YearSet(max_year) THEN records
       ELSE [k \in 1..Len(kept) |-> Out(kept[k])]

\* the argument list after apply_filters(profiles, filter_config): under
\* "flag" the dict of a record without a year is written to (p["needs_review"]
\* = True) before it is appended, so the caller's list shows the flag too
ProfilesAfterFilters(records, filter_config) ==
    LET flags == /\ YearSet(filter_config.bachelors_grad_year_min)
                    \/ YearSet(filter_config.bachelors_grad_year_max)
                 /\ ActionOf(filter_config) = "flag"
    IN [k \in 1..Len(records) |->
           IF flags /\ records[k].bachelors_grad_year = None
           THEN [records[k] EXCEPT !.needs_review = TRUE] ELSE records[k]]

\* bound of the lists filtered
MaxFiltered == 2

FilterYears == {None, Some(2009), Some(2010), Some(2017), Some(2024), Some(2025)}

\* records with a year carry no note; records without one come with or
\* without a review flag
FilterRecords ==
    {[full_name |-> "Ann Lee", bachelors_grad_year |-> y, needs_review |-> FALSE, review |-> ""] :
        y \in FilterYears}
    \cup {[full_name |-> "Bo Diaz", bachelors_grad_year |-> None, needs_review |-> TRUE,
           review |-> "no education"]}

FilterConfigs ==
    [bachelors_grad_year_min : {None, Some(0), Some(2010)},
     bachelors_grad_year_max : {None, Some(0), Some(2024)},
     no_bachelors_action : {None, Some("include"), Some("flag"), Some("skip")}]

NoFilterConfig ==
    [bachelors_grad_year_min |-> None, bachelors_grad_year_max |-> None,
     no_bachelors_action |-> None]

FilterIdle == fProfiles = <<>> /\ fGiven = <<>> /\ fConfig = NoFilterConfig /\ fOut = None

FilterInit ==
    /\ fProfiles \in SeqsUpTo(FilterRecords, MaxFiltered)
    /\ fGiven = fProfiles
    /\ fConfig \in FilterConfigs
    /\ fOut = None

\* a call apply_filters(profiles, filter_config)
FilterCall ==
    /\ fOut = None
    /\ fOut' = Some(ApplyFilters(fProfiles, fConfig))
    /\ fProfiles' = ProfilesAfterFilters(fProfiles, fConfig)
    /\ UNCHANGED <<fGiven, fConfig>>

\* the record is kept by the policy of the claim: a bound counts as
\* configured when it is a year other than 0
KeptByPolicy(p, cfg) ==
    IF p.bachelors_grad_year = None
    THEN cfg.no_bachelors_action \in {Some("include"), Some("flag")}
    ELSE /\ YearSet(cfg.bachelors_grad_year_min)
            => cfg.bachelors_grad_year_min[1] <= p.bachelors_grad_year[1]
         /\ YearSet(cfg.bachelors_grad_year_max)
            => p.bachelors_grad_year[1] <= cfg.bachelors_grad_year_max[1]

(* C25: apply_filters returns the input list as it is when neither a minimum
   nor a maximum year is configured. Otherwise the list returned has, in
   input order, the records with a year that is within the configured bounds
   (a bound that is not configured does not apply), unchanged, and the
   records without a year when the action is "include", unchanged, or
   "flag", with needs_review true; records without a year are dropped under
   "skip" and when no action is configured. *)
C25_ApplyFilters ==
    fOut # None =>
       IF ~YearSet(fConfig.bachelors_grad_year_min) /\ ~YearSet(fConfig.bachelors_grad_year_max)
       THEN fOut[1] = fGiven
       ELSE LET K == {k \in 1..Len(fGiven) : KeptByPolicy(fGiven[k], fConfig)}
                Rank(k) == Cardinality({j \in K : j <= k})
            IN /\ Len(fOut[1]) = Cardinality(K)
               /\ \A k \in K :
                     fOut[1][Rank(k)] =
                        IF /\ fGiven[k].bachelors_grad_year = None
                           /\ fConfig.no_bachelors_action = Some("flag")
                        THEN [fGiven[k] EXCEPT !.needs_review = TRUE]
                        ELSE fGiven[k]

\* a record without a year, flagged, and a record of 2009, dropped under the
\* minimum 2010
C25_Witness ==
    /\ fOut # None
    /\ fConfig.bachelors_grad_year_min = Some(2010)
    /\ fConfig.no_bachelors_action = Some("flag")
    /\ Len(fGiven) = 2
    /\ fGiven[1].bachelors_grad_year = Some(2009)
    /\ fGiven[2].bachelors_grad_year = None /\ ~fGiven[2].needs_review
    /\ fOut[1] = <<[fGiven[2] EXCEPT !.needs_review = TRUE]>>

-----------------------------------------------------------------------------
(* Checkpoint file: search.py, _save_profiles_incrementally,
   load_incremental_profiles and clear_incremental_file.
   The file is its text; a record is written as the line json.dumps gives
   for it and read back with str.splitlines and json.loads. *)

ProfileKeys ==
    <<"full_name", "current_company", "current_title", "linkedin_public_url",
      "location", "headline", "bachelors_grad_year", "years_experience",
      "recruiter_url", "needs_review", "review">>

\* the keys whose value is an int or None, and those whose value is a bool;
\* the values of the other keys are strings
OptIntKeys == {"bachelors_grad_year", "years_experience"}
BoolKeys == {"needs_review"}

\* the line boundaries of str.splitlines
LineBreaks == {"\n", "\r", "\f", VT, FS, GS, RS, LINE_SEP}

\* the control characters U+0000 to U+001F: json.dumps escapes them, and
\* json.loads rejects them unescaped inside a string
ControlChars == {NUL} \cup {CharAt(C0Chars, k) : k \in 1..Len(C0Chars)}

\* the escape \u00xx of the control character of code n
JsonEscapeU(n) ==
    "\\u00" \o CharAt("0123456789abcdef", (n \div 16) + 1)
             \o CharAt("0123456789abcdef", (n % 16) + 1)

\* json.dumps of one character of a string
JsonEscapeChar(c) ==
    CASE c = "\"" -> "\\\""
      [] c = "\\" -> "\\\\"
      [] c = "\n" -> "\\n"
      [] c = "\r" -> "\\r"
      [] c = "\t" -> "\\t"
      [] c = "\f" -> "\\f"
      [] c = BACKSPACE -> "\\b"
      [] c = NUL -> JsonEscapeU(0)
      [] IndexIn(C0Chars, c) > 0 -> JsonEscapeU(IndexIn(C0Chars, c))
      [] OTHER -> c

RECURSIVE JsonEscape(_)
JsonEscape(s) ==
    IF s = "" THEN "" ELSE JsonEscapeChar(CharAt(s, 1)) \o JsonEscape(SubSeq(s, 2, Len(s)))

\* json.dumps of a str
JsonString(s) == "\"" \o JsonEscape(s) \o "\""

RECURSIVE IntToStr(_)
\* str() of an int
IntToStr(n) ==
    IF n < 0 THEN "-" \o IntToStr(-n)
    ELSE IF n < 10 THEN CharAt(Digits, n + 1)
    ELSE IntToStr(n \div 10) \o CharAt(Digits, (n % 10) + 1)

\* json.dumps of the value of a key of a profile
JsonValue(key, v) ==
    IF key \in OptIntKeys THEN (IF v = None THEN "null" ELSE IntToStr(v[1]))
    ELSE IF key \in BoolKeys THEN (IF v THEN "true" ELSE "false")
    ELSE JsonString(v)

RECURSIVE JsonMembers(_, _)
\* the members of the object from the k-th key on, separated by ", "
JsonMembers(profile, k) ==
    IF k > Len(ProfileKeys) THEN ""
    ELSE JsonString(ProfileKeys[k]) \o ": " \o JsonValue(ProfileKeys[k], profile[ProfileKeys[k]])
         \o (IF k < Len(ProfileKeys) THEN ", " ELSE "")
         \o JsonMembers(profile, k + 1)

\* json.dumps(profile, ensure_ascii=False)
JsonDumps(profile) == "{" \o JsonMembers(profile, 1) \o "}"

\* the first line boundary of text at or after position start, Len(text) + 1
\* when there is none
NextBreak(text, start) ==
    IF \E i \in start..Len(text) : CharAt(text, i) \in LineBreaks
    THEN CHOOSE i \in start..Len(text) :
            /\ CharAt(text, i) \in LineBreaks
            /\ \A j \in start..(i - 1) : CharAt(text, j) \notin LineBreaks
    ELSE Len(text) + 1

RECURSIVE SplitFrom(_, _)
\* the lines of text from position start on; "\r\n" is one boundary, and
\* nothing follows the last boundary of a text that ends with one
SplitFrom(text, start) ==
    IF start > Len(text) THEN <<>>
    ELSE LET b == NextBreak(text, start)
             skip == IF b < Len(text) /\ CharAt(text, b) = "\r" /\ CharAt(text, b + 1) = "\n"
                     THEN 2 ELSE 1
         IN <<SubSeq(text, start, b - 1)>> \o SplitFrom(text, b + skip)

\* text.splitlines()
SplitLines(text) == SplitFrom(text, 1)

\* the result of a step of the JSON decoder: the value read and the position
\* after it, or a failure (json.JSONDecodeError)
ParseOk(val, next) == [ok |-> TRUE, val |-> val, next |-> next]
ParseFail == [ok |-> FALSE, val |-> <<>>, next |-> 0]

RECURSIVE SkipWs(_, _)
\* the first position from i on that holds no JSON whitespace
SkipWs(s, i) ==
    IF i <= Len(s) /\ CharAt(s, i) \in {" ", "\t", "\n", "\r"} THEN SkipWs(s, i + 1) ELSE i

\* the character an escape \e stands for (BACKSLASH of json.decoder)
JsonUnescapeChar(e) ==
    CASE e = "n" -> "\n"
      [] e = "r" -> "\r"
      [] e = "t" -> "\t"
      [] e = "f" -> "\f"
      [] e = "b" -> BACKSPACE
      [] OTHER -> e

\* the number of an escape \uXXXX whose u is at position pos, -1 when four
\* hexadecimal digits do not follow
DecodeUXXXX(s, pos) ==
    LET Number(a, b, c, d) ==
            IF a < 0 \/ b < 0 \/ c < 0 \/ d < 0 THEN -1
            ELSE 4096 * a + 256 * b + 16 * c + d
    IN IF pos + 4 > Len(s) THEN -1
       ELSE Number(HexVal(CharAt(s, pos + 1)), HexVal(CharAt(s, pos + 2)),
                   HexVal(CharAt(s, pos + 3)), HexVal(CharAt(s, pos + 4)))

\* the characters from U+0020 to U+007E, in code order; the places of the
\* ten characters given up hold OTHER_CHAR
AsciiPrintable ==
    " |\"#|%&'()|+,-./0123456789:;|=|?|ABCDEFGHIJKLMNOPQRSTUVWXYZ[\\]|_|abcdefghijklmnopqrstuvwxyz{|}|"

\* the ranges of the characters of \d above U+007F
DecimalRanges ==
    {<<1632, 1641>>, <<1776, 1785>>, <<1984, 1993>>, <<2406, 2415>>, <<2534, 2543>>,
     <<2662, 2671>>, <<2790, 2799>>, <<2918, 2927>>, <<3046, 3055>>, <<3174, 3183>>,
     <<3302, 3311>>, <<3430, 3439>>, <<3558, 3567>>, <<3664, 3673>>, <<3792, 3801>>,
     <<3872, 3881>>, <<4160, 4169>>, <<4240, 4249>>, <<6112, 6121>>, <<6160, 6169>>,
     <<6470, 6479>>, <<6608, 6617>>, <<6784, 6793>>, <<6800, 6809>>, <<6992, 7001>>,
     <<7088, 7097>>, <<7232, 7241>>, <<7248, 7257>>, <<42528, 42537>>, <<43216, 43225>>,
     <<43264, 43273>>, <<43472, 43481>>, <<43504, 43513>>, <<43600, 43609>>, <<44016, 44025>>,
     <<65296, 65305>>, <<66720, 66729>>, <<68912, 68921>>, <<69734, 69743>>, <<69872, 69881>>,
     <<69942, 69951>>, <<70096, 70105>>, <<70384, 70393>>, <<70736, 70745>>, <<70864, 70873>>,
     <<71248, 71257>>, <<71360, 71369>>, <<71472, 71481>>, <<71904, 71913>>, <<72016, 72025>>,
     <<72784, 72793>>, <<73040, 73049>>, <<73120, 73129>>, <<92768, 92777>>, <<92864, 92873>>,
     <<93008, 93017>>, <<120782, 120831>>, <<123200, 123209>>, <<123632, 123641>>,
     <<125264, 125273>>, <<130032, 130041>>}

\* the ranges of the other characters of \w above U+007F
WordRanges ==
    {<<170, 170>>, <<178, 179>>, <<181, 181>>, <<185, 186>>, <<188, 190>>, <<192, 214>>,
     <<216, 246>>, <<248, 705>>, <<710, 721>>, <<736, 740>>, <<748, 748>>, <<750, 750>>,
     <<880, 884>>, <<886, 887>>, <<890, 893>>, <<895, 895>>, <<902, 902>>, <<904, 906>>,
     <<908, 908>>, <<910, 929>>, <<931, 1013>>, <<1015, 1153>>, <<1162, 1327>>, <<1329, 1366>>,
     <<1369, 1369>>, <<1376, 1416>>, <<1488, 1514>>, <<1519, 1522>>, <<1568, 1610>>,
     <<1646, 1647>>, <<1649, 1747>>, <<1749, 1749>>, <<1765, 1766>>, <<1774, 1775>>,
     <<1786, 1788>>, <<1791, 1791>>, <<1808, 1808>>, <<1810, 1839>>, <<1869, 1957>>,
     <<1969, 1969>>, <<1994, 2026>>, <<2036, 2037>>, <<2042, 2042>>, <<2048, 2069>>,
     <<2074, 2074>>, <<2084, 2084>>, <<2088, 2088>>, <<2112, 2136>>, <<2144, 2154>>,
     <<2160, 2183>>, <<2185, 2190>>, <<2208, 2249>>, <<2308, 2361>>, <<2365, 2365>>,
     <<2384, 2384>>, <<2392, 2401>>, <<2417, 2432>>, <<2437, 2444>>, <<2447, 2448>>,
     <<2451, 2472>>, <<2474, 2480>>, <<2482, 2482>>, <<2486, 2489>>, <<2493, 2493>>,
     <<2510, 2510>>, <<2524, 2525>>, <<2527, 2529>>, <<2544, 2545>>, <<2548, 2553>>,
     <<2556, 2556>>, <<2565, 2570>>, <<2575, 2576>>, <<2579, 2600>>, <<2602, 2608>>,
     <<2610, 2611>>, <<2613, 2614>>, <<2616, 2617>>, <<2649, 2652>>, <<2654, 2654>>,
     <<2674, 2676>>, <<2693, 2701>>, <<2703, 2705>>, <<2707, 2728>>, <<2730, 2736>>,
     <<2738, 2739>>, <<2741, 2745>>, <<2749, 2749>>, <<2768, 2768>>, <<2784, 2785>>,
     <<2809, 2809>>, <<2821, 2828>>, <<2831, 2832>>, <<2835, 2856>>, <<2858, 2864>>,
     <<2866, 2867>>, <<2869, 2873>>, <<2877, 2877>>, <<2908, 2909>>, <<2911, 2913>>,
     <<2929, 2935>>, <<2947, 2947>>, <<2949, 2954>>, <<2958, 2960>>, <<2962, 2965>>,
     <<2969, 2970>>, <<2972, 2972>>, <<2974, 2975>>, <<2979, 2980>>, <<2984, 2986>>,
     <<2990, 3001>>, <<3024, 3024>>, <<3056, 3058>>, <<3077, 3084>>, <<3086, 3088>>,
     <<3090, 3112>>, <<3114, 3129>>, <<3133, 3133>>, <<3160, 3162>>, <<3165, 3165>>,
     <<3168, 3169>>, <<3192, 3198>>, <<3200, 3200>>, <<3205, 3212>>, <<3214, 3216>>,
     <<3218, 3240>>, <<3242, 3251>>, <<3253, 3257>>, <<3261, 3261>>, <<3293, 3294>>,
     <<3296, 3297>>, <<3313, 3314>>, <<3332, 3340>>, <<3342, 3344>>, <<3346, 3386>>,
     <<3389, 3389>>, <<3406, 3406>>, <<3412, 3414>>, <<3416, 3425>>, <<3440, 3448>>,
     <<3450, 3455>>, <<3461, 3478>>, <<3482, 3505>>, <<3507, 3515>>, <<3517, 3517>>,
     <<3520, 3526>>, <<3585, 3632>>, <<3634, 3635>>, <<3648, 3654>>, <<3713, 3714>>,
     <<3716, 3716>>, <<3718, 3722>>, <<3724, 3747>>, <<3749, 3749>>, <<3751, 3760>>,
     <<3762, 3763>>, <<3773, 3773>>, <<3776, 3780>>, <<3782, 3782>>, <<3804, 3807>>,
     <<3840, 3840>>, <<3882, 3891>>, <<3904, 3911>>, <<3913, 3948>>, <<3976, 3980>>,
     <<4096, 4138>>, <<4159, 4159>>, <<4176, 4181>>, <<4186, 4189>>, <<4193, 4193>>,
     <<4197, 4198>>, <<4206, 4208>>, <<4213, 4225>>, <<4238, 4238>>, <<4256, 4293>>,
     <<4295, 4295>>, <<4301, 4301>>, <<4304, 4346>>, <<4348, 4680>>, <<4682, 4685>>,
     <<4688, 4694>>, <<4696, 4696>>, <<4698, 4701>>, <<4704, 4744>>, <<4746, 4749>>,
     <<4752, 4784>>, <<4786, 4789>>, <<4792, 4798>>, <<4800, 4800>>, <<4802, 4805>>,
     <<4808, 4822>>, <<4824, 4880>>, <<4882, 4885>>, <<4888, 4954>>, <<4969, 4988>>,
     <<4992, 5007>>, <<5024, 5109>>, <<5112, 5117>>, <<5121, 5740>>, <<5743, 5759>>,
     <<5761, 5786>>, <<5792, 5866>>, <<5870, 5880>>, <<5888, 5905>>, <<5919, 5937>>,
     <<5952, 5969>>, <<5984, 5996>>, <<5998, 6000>>, <<6016, 6067>>, <<6103, 6103>>,
     <<6108, 6108>>, <<6128, 6137>>, <<6176, 6264>>, <<6272, 6276>>, <<6279, 6312>>,
     <<6314, 6314>>, <<6320, 6389>>, <<6400, 6430>>, <<6480, 6509>>, <<6512, 6516>>,
     <<6528, 6571>>, <<6576, 6601>>, <<6618, 6618>>, <<6656, 6678>>, <<6688, 6740>>,
     <<6823, 6823>>, <<6917, 6963>>, <<6981, 6988>>, <<7043, 7072>>, <<7086, 7087>>,
     <<7098, 7141>>, <<7168, 7203>>, <<7245, 7247>>, <<7258, 7293>>, <<7296, 7304>>,
     <<7312, 7354>>, <<7357, 7359>>, <<7401, 7404>>, <<7406, 7411>>, <<7413, 7414>>,
     <<7418, 7418>>, <<7424, 7615>>, <<7680, 7957>>, <<7960, 7965>>, <<7968, 8005>>,
     <<8008, 8013>>, <<8016, 8023>>, <<8025, 8025>>, <<8027, 8027>>, <<8029, 8029>>,
     <<8031, 8061>>, <<8064, 8116>>, <<8118, 8124>>, <<8126, 8126>>, <<8130, 8132>>,
     <<8134, 8140>>, <<8144, 8147>>, <<8150, 8155>>, <<8160, 8172>>, <<8178, 8180>>,
     <<8182, 8188>>, <<8304, 8305>>, <<8308, 8313>>, <<8319, 8329>>, <<8336, 8348>>,
     <<8450, 8450>>, <<8455, 8455>>, <<8458, 8467>>, <<8469, 8469>>, <<8473, 8477>>,
     <<8484, 8484>>, <<8486, 8486>>, <<8488, 8488>>, <<8490, 8493>>, <<8495, 8505>>,
     <<8508, 8511>>, <<8517, 8521>>, <<8526, 8526>>, <<8528, 8585>>, <<9312, 9371>>,
     <<9450, 9471>>, <<10102, 10131>>, <<11264, 11492>>, <<11499, 11502>>, <<11506, 11507>>,
     <<11517, 11517>>, <<11520, 11557>>, <<11559, 11559>>, <<11565, 11565>>, <<11568, 11623>>,
     <<11631, 11631>>, <<11648, 11670>>, <<11680, 11686>>, <<11688, 11694>>, <<11696, 11702>>,
     <<11704, 11710>>, <<11712, 11718>>, <<11720, 11726>>, <<11728, 11734>>, <<11736, 11742>>,
     <<11823, 11823>>, <<12293, 12295>>, <<12321, 12329>>, <<12337, 12341>>, <<12344, 12348>>,
     <<12353, 12438>>, <<12445, 12447>>, <<12449, 12538>>, <<12540, 12543>>, <<12549, 12591>>,
     <<12593, 12686>>, <<12690, 12693>>, <<12704, 12735>>, <<12784, 12799>>, <<12832, 12841>>,
     <<12872, 12879>>, <<12881, 12895>>, <<12928, 12937>>, <<12977, 12991>>, <<13312, 19903>>,
     <<19968, 42124>>, <<42192, 42237>>, <<42240, 42508>>, <<42512, 42527>>, <<42538, 42539>>,
     <<42560, 42606>>, <<42623, 42653>>, <<42656, 42735>>, <<42775, 42783>>, <<42786, 42888>>,
     <<42891, 42954>>, <<42960, 42961>>, <<42963, 42963>>, <<42965, 42969>>, <<42994, 43009>>,
     <<43011, 43013>>, <<43015, 43018>>, <<43020, 43042>>, <<43056, 43061>>, <<43072, 43123>>,
     <<43138, 43187>>, <<43250, 43255>>, <<43259, 43259>>, <<43261, 43262>>, <<43274, 43301>>,
     <<43312, 43334>>, <<43360, 43388>>, <<43396, 43442>>, <<43471, 43471>>, <<43488, 43492>>,
     <<43494, 43503>>, <<43514, 43518>>, <<43520, 43560>>, <<43584, 43586>>, <<43588, 43595>>,
     <<43616, 43638>>, <<43642, 43642>>, <<43646, 43695>>, <<43697, 43697>>, <<43701, 43702>>,
     <<43705, 43709>>, <<43712, 43712>>, <<43714, 43714>>, <<43739, 43741>>, <<43744, 43754>>,
     <<43762, 43764>>, <<43777, 43782>>, <<43785, 43790>>, <<43793, 43798>>, <<43808, 43814>>,
     <<43816, 43822>>, <<43824, 43866>>, <<43868, 43881>>, <<43888, 44002>>, <<44032, 55203>>,
     <<55216, 55238>>, <<55243, 55291>>, <<63744, 64109>>, <<64112, 64217>>, <<64256, 64262>>,
     <<64275, 64279>>, <<64285, 64285>>, <<64287, 64296>>, <<64298, 64310>>, <<64312, 64316>>,
     <<64318, 64318>>, <<64320, 64321>>, <<64323, 64324>>, <<64326, 64433>>, <<64467, 64829>>,
     <<64848, 64911>>, <<64914, 64967>>, <<65008, 65019>>, <<65136, 65140>>, <<65142, 65276>>,
     <<65313, 65338>>, <<65345, 65370>>, <<65382, 65470>>, <<65474, 65479>>, <<65482, 65487>>,
     <<65490, 65495>>, <<65498, 65500>>, <<65536, 65547>>, <<65549, 65574>>, <<65576, 65594>>,
     <<65596, 65597>>, <<65599, 65613>>, <<65616, 65629>>, <<65664, 65786>>, <<65799, 65843>>,
     <<65856, 65912>>, <<65930, 65931>>, <<66176, 66204>>, <<66208, 66256>>, <<66273, 66299>>,
     <<66304, 66339>>, <<66349, 66378>>, <<66384, 66421>>, <<66432, 66461>>, <<66464, 66499>>,
     <<66504, 66511>>, <<66513, 66517>>, <<66560, 66717>>, <<66736, 66771>>, <<66776, 66811>>,
     <<66816, 66855>>, <<66864, 66915>>, <<66928, 66938>>, <<66940, 66954>>, <<66956, 66962>>,
     <<66964, 66965>>, <<66967, 66977>>, <<66979, 66993>>, <<66995, 67001>>, <<67003, 67004>>,
     <<67072, 67382>>, <<67392, 67413>>, <<67424, 67431>>, <<67456, 67461>>, <<67463, 67504>>,
     <<67506, 67514>>, <<67584, 67589>>, <<67592, 67592>>, <<67594, 67637>>, <<67639, 67640>>,
     <<67644, 67644>>, <<67647, 67669>>, <<67672, 67702>>, <<67705, 67742>>, <<67751, 67759>>,
     <<67808, 67826>>, <<67828, 67829>>, <<67835, 67867>>, <<67872, 67897>>, <<67968, 68023>>,
     <<68028, 68047>>, <<68050, 68096>>, <<68112, 68115>>, <<68117, 68119>>, <<68121, 68149>>,
     <<68160, 68168>>, <<68192, 68222>>, <<68224, 68255>>, <<68288, 68295>>, <<68297, 68324>>,
     <<68331, 68335>>, <<68352, 68405>>, <<68416, 68437>>, <<68440, 68466>>, <<68472, 68497>>,
     <<68521, 68527>>, <<68608, 68680>>, <<68736, 68786>>, <<68800, 68850>>, <<68858, 68899>>,
     <<69216, 69246>>, <<69248, 69289>>, <<69296, 69297>>, <<69376, 69415>>, <<69424, 69445>>,
     <<69457, 69460>>, <<69488, 69505>>, <<69552, 69579>>, <<69600, 69622>>, <<69635, 69687>>,
     <<69714, 69733>>, <<69745, 69746>>, <<69749, 69749>>, <<69763, 69807>>, <<69840, 69864>>,
     <<69891, 69926>>, <<69956, 69956>>, <<69959, 69959>>, <<69968, 70002>>, <<70006, 70006>>,
     <<70019, 70066>>, <<70081, 70084>>, <<70106, 70106>>, <<70108, 70108>>, <<70113, 70132>>,
     <<70144, 70161>>, <<70163, 70187>>, <<70272, 70278>>, <<70280, 70280>>, <<70282, 70285>>,
     <<70287, 70301>>, <<70303, 70312>>, <<70320, 70366>>, <<70405, 70412>>, <<70415, 70416>>,
     <<70419, 70440>>, <<70442, 70448>>, <<70450, 70451>>, <<70453, 70457>>, <<70461, 70461>>,
     <<70480, 70480>>, <<70493, 70497>>, <<70656, 70708>>, <<70727, 70730>>, <<70751, 70753>>,
     <<70784, 70831>>, <<70852, 70853>>, <<70855, 70855>>, <<71040, 71086>>, <<71128, 71131>>,
     <<71168, 71215>>, <<71236, 71236>>, <<71296, 71338>>, <<71352, 71352>>, <<71424, 71450>>,
     <<71482, 71483>>, <<71488, 71494>>, <<71680, 71723>>, <<71840, 71903>>, <<71914, 71922>>,
     <<71935, 71942>>, <<71945, 71945>>, <<71948, 71955>>, <<71957, 71958>>, <<71960, 71983>>,
     <<71999, 71999>>, <<72001, 72001>>, <<72096, 72103>>, <<72106, 72144>>, <<72161, 72161>>,
     <<72163, 72163>>, <<72192, 72192>>, <<72203, 72242>>, <<72250, 72250>>, <<72272, 72272>>,
     <<72284, 72329>>, <<72349, 72349>>, <<72368, 72440>>, <<72704, 72712>>, <<72714, 72750>>,
     <<72768, 72768>>, <<72794, 72812>>, <<72818, 72847>>, <<72960, 72966>>, <<72968, 72969>>,
     <<72971, 73008>>, <<73030, 73030>>, <<73056, 73061>>, <<73063, 73064>>, <<73066, 73097>>,
     <<73112, 73112>>, <<73440, 73458>>, <<73648, 73648>>, <<73664, 73684>>, <<73728, 74649>>,
     <<74752, 74862>>, <<74880, 75075>>, <<77712, 77808>>, <<77824, 78894>>, <<82944, 83526>>,
     <<92160, 92728>>, <<92736, 92766>>, <<92784, 92862>>, <<92880, 92909>>, <<92928, 92975>>,
     <<92992, 92995>>, <<93019, 93025>>, <<93027, 93047>>, <<93053, 93071>>, <<93760, 93846>>,
     <<93952, 94026>>, <<94032, 94032>>, <<94099, 94111>>, <<94176, 94177>>, <<94179, 94179>>,
     <<94208, 100343>>, <<100352, 101589>>, <<101632, 101640>>, <<110576, 110579>>,
     <<110581, 110587>>, <<110589, 110590>>, <<110592, 110882>>, <<110928, 110930>>,
     <<110948, 110951>>, <<110960, 111355>>, <<113664, 113770>>, <<113776, 113788>>,
     <<113792, 113800>>, <<113808, 113817>>, <<119520, 119539>>, <<119648, 119672>>,
     <<119808, 119892>>, <<119894, 119964>>, <<119966, 119967>>, <<119970, 119970>>,
     <<119973, 119974>>, <<119977, 119980>>, <<119982, 119993>>, <<119995, 119995>>,
     <<119997, 120003>>, <<120005, 120069>>, <<120071, 120074>>, <<120077, 120084>>,
     <<120086, 120092>>, <<120094, 120121>>, <<120123, 120126>>, <<120128, 120132>>,
     <<120134, 120134>>, <<120138, 120144>>, <<120146, 120485>>, <<120488, 120512>>,
     <<120514, 120538>>, <<120540, 120570>>, <<120572, 120596>>, <<120598, 120628>>,
     <<120630, 120654>>, <<120656, 120686>>, <<120688, 120712>>, <<120714, 120744>>,
     <<120746, 120770>>, <<120772, 120779>>, <<122624, 122654>>, <<123136, 123180>>,
     <<123191, 123197>>, <<123214, 123214>>, <<123536, 123565>>, <<123584, 123627>>,
     <<124896, 124902>>, <<124904, 124907>>, <<124909, 124910>>, <<124912, 124926>>,
     <<124928, 125124>>, <<125127, 125135>>, <<125184, 125251>>, <<125259, 125259>>,
     <<126065, 126123>>, <<126125, 126127>>, <<126129, 126132>>, <<126209, 126253>>,
     <<126255, 126269>>, <<126464, 126467>>, <<126469, 126495>>, <<126497, 126498>>,
     <<126500, 126500>>, <<126503, 126503>>, <<126505, 126514>>, <<126516, 126519>>,
     <<126521, 126521>>, <<126523, 126523>>, <<126530, 126530>>, <<126535, 126535>>,
     <<126537, 126537>>, <<126539, 126539>>, <<126541, 126543>>, <<126545, 126546>>,
     <<126548, 126548>>, <<126551, 126551>>, <<126553, 126553>>, <<126555, 126555>>,
     <<126557, 126557>>, <<126559, 126559>>, <<126561, 126562>>, <<126564, 126564>>,
     <<126567, 126570>>, <<126572, 126578>>, <<126580, 126583>>, <<126585, 126588>>,
     <<126590, 126590>>, <<126592, 126601>>, <<126603, 126619>>, <<126625, 126627>>,
     <<126629, 126633>>, <<126635, 126651>>, <<127232, 127244>>, <<131072, 173791>>,
     <<173824, 177976>>, <<177984, 178205>>, <<178208, 183969>>, <<183984, 191456>>,
     <<194560, 195101>>, <<196608, 201546>>}

\* uni is in one of the ranges
InRanges(uni, rngs) == \E r \in rngs : r[1] <= uni /\ uni <= r[2]

\* chr(uni), for uni from 0 to 1114111
ChrOf(uni) ==
    IF uni = 0 THEN NUL
    ELSE IF uni < 32 THEN CharAt(C0Chars, uni)
    ELSE IF uni < 127 THEN CharAt(AsciiPrintable, uni - 31)
    ELSE IF uni \in {133, 8232, 8233} THEN LINE_SEP
    ELSE IF uni \in {160, 5760, 8239, 8287, 12288} \cup (8192..8202) THEN NBSP
    ELSE IF 55296 <= uni /\ uni <= 57343 THEN SURROGATE
    ELSE IF uni = 304 THEN DOTTED_I
    ELSE IF uni = 383 THEN LONG_S
    ELSE IF uni = 8490 THEN "K"
    ELSE IF InRanges(uni, DecimalRanges) THEN DECIMAL
    ELSE IF InRanges(uni, WordRanges) THEN LETTER
    ELSE OTHER_CHAR

\* the number of backslashes in a row that end at position k, counted from
\* position lo on
BackslashRun(s, k, lo) ==
    CHOOSE n \in 0..(k - lo + 1) :
        /\ \A m \in 0..(n - 1) : CharAt(s, k - m) = "\\"
        /\ n = k - lo + 1 \/ CharAt(s, k - n) # "\\"

\* position k holds the backslash that opens an escape of the string that
\* starts at lo: backslashes pair up from the left
EscapeStart(s, k, lo) ==
    k >= lo /\ k <= Len(s) /\ CharAt(s, k) = "\\" /\ BackslashRun(s, k, lo) % 2 = 1

\* position k opens an escape \uXXXX with four hexadecimal digits
UnicodeStart(s, k, lo) ==
    EscapeStart(s, k, lo) /\ MatchAt(s, "u", k + 1) /\ DecodeUXXXX(s, k + 1) >= 0

IsHighSurrogate(uni) == 55296 <= uni /\ uni <= 56319
IsLowSurrogate(uni) == 56320 <= uni /\ uni <= 57343

\* position k opens the escape of a low surrogate that was read with the
\* escape of a high surrogate before it
PairedLow(s, k, lo) ==
    /\ UnicodeStart(s, k, lo) /\ IsLowSurrogate(DecodeUXXXX(s, k + 1))
    /\ UnicodeStart(s, k - 6, lo) /\ IsHighSurrogate(DecodeUXXXX(s, k - 5))

\* what position k of the string that starts at lo gives: <<TRUE, the
\* character read there>> (no character at a position inside an escape) or
\* <<FALSE, "">> for an invalid escape or a control character (strict)
StringChar(s, k, lo) ==
    IF EscapeStart(s, k, lo)
    THEN IF k + 1 > Len(s) THEN <<FALSE, "">>
         ELSE IF CharAt(s, k + 1) = "u"
         THEN IF DecodeUXXXX(s, k + 1) < 0 THEN <<FALSE, "">>
              ELSE IF PairedLow(s, k, lo) THEN <<TRUE, "">>
              ELSE IF IsHighSurrogate(DecodeUXXXX(s, k + 1)) /\ PairedLow(s, k + 6, lo)
              THEN <<TRUE, ChrOf(65536 + 1024 * (DecodeUXXXX(s, k + 1) - 55296)
                                 + (DecodeUXXXX(s, k + 7) - 56320))>>
              ELSE <<TRUE, ChrOf(DecodeUXXXX(s, k + 1))>>
         ELSE IF CharAt(s, k + 1) \in {"\"", "\\", "/", "b", "f", "n", "r", "t"}
         THEN <<TRUE, JsonUnescapeChar(CharAt(s, k + 1))>>
         ELSE <<FALSE, "">>
    ELSE IF EscapeStart(s, k - 1, lo) \/ \E d \in 2..5 : UnicodeStart(s, k - d, lo)
    THEN <<TRUE, "">>
    ELSE IF CharAt(s, k) \in ControlChars THEN <<FALSE, "">>
    ELSE <<TRUE, CharAt(s, k)>>

RECURSIVE StringChars(_, _, _, _)
\* the characters read at the positions from..to of the string that starts
\* at lo
StringChars(s, from, to, lo) ==
    IF from > to THEN ""
    ELSE IF from = to THEN StringChar(s, from, lo)[2]
    ELSE StringChars(s, from, (from + to) \div 2, lo)
         \o StringChars(s, ((from + to) \div 2) + 1, to, lo)

\* the JSON string whose first character is at position j, after the
\* opening quote (scanstring, strict): it ends at the first quote that no
\* escape holds. An escape \uXXXX of a high surrogate followed by the escape
\* of a low surrogate is read with it as one character.
ScanString(s, j) ==
    LET Quotes == {k \in j..Len(s) : CharAt(s, k) = "\"" /\ ~EscapeStart(s, k - 1, j)}
        Closed(end) ==
            IF \A k \in j..(end - 1) : StringChar(s, k, j)[1]
            THEN ParseOk(StringChars(s, j, end - 1, j), end + 1)
            ELSE ParseFail
    IN IF Quotes = {} THEN ParseFail
       ELSE Closed(CHOOSE k \in Quotes : \A m \in Quotes : k <= m)

RECURSIVE DigitsEnd(_, _)
\* the position after the run of digits that starts at i
DigitsEnd(s, i) == IF i <= Len(s) /\ IsDigit(CharAt(s, i)) THEN DigitsEnd(s, i + 1) ELSE i

(* A float is [kind, neg, mant, exp]: kind "finite" for the number
   (-1)^neg * mant * 10^exp with mant not a multiple of 10 (mant 0 and exp 0
   for a zero), "inf" for an infinity and "nan". Two decimal texts that
   denote the same number give the same float, as float() does; the rounding
   to 53 bits is not modelled, so this is float() for texts of at most 9
   significant digits outside the subnormal range. *)
FloatVal(kind, neg, mant, exp) == [kind |-> kind, neg |-> neg, mant |-> mant, exp |-> exp]

\* a float as a JSON value
JsonFloat(x) == <<"float", x>>

RECURSIVE FloatNorm(_, _)
\* <<mant, exp>> of mant * 10^exp with the trailing zeros of mant moved to exp
FloatNorm(mant, exp) ==
    IF mant = 0 THEN <<0, 0>>
    ELSE IF mant % 10 = 0 THEN FloatNorm(mant \div 10, exp + 1)
    ELSE <<mant, exp>>

RECURSIVE NumDigits(_)
\* the number of decimal digits of a positive int
NumDigits(n) == IF n < 10 THEN 1 ELSE 1 + NumDigits(n \div 10)

RECURSIVE Pow10(_)
Pow10(k) == IF k = 0 THEN 1 ELSE 10 * Pow10(k - 1)

RECURSIVE StripZeros(_)
\* a string of digits without its leading zeros
StripZeros(ds) ==
    IF ds # "" /\ CharAt(ds, 1) = "0" THEN StripZeros(SubSeq(ds, 2, Len(ds))) ELSE ds

\* float(text) for the text of a JSON number: digits are the digits of the
\* integer part and of the fraction, fracLen the number of digits of the
\* fraction, expNeg and expDigits the sign and the digits of the exponent.
\* The largest float is 1.7976931348623157e308 and a number below
\* 2.4703282292062328e-324 is read as zero.
FloatOf(neg, digits, fracLen, expNeg, expDigits) ==
    LET Rounded(mant, mag, lead) ==
            IF mag > 309 \/ (mag = 309 /\ lead >= 179769314) THEN FloatVal("inf", neg, 0, 0)
            ELSE IF mag < -323 \/ (mag = -323 /\ lead <= 247032822)
            THEN FloatVal("finite", neg, 0, 0)
            ELSE FloatVal("finite", neg, mant, mag - NumDigits(mant))
        Normal(n) ==
            IF n[1] = 0 THEN FloatVal("finite", neg, 0, 0)
            ELSE Rounded(n[1], NumDigits(n[1]) + n[2], n[1] * Pow10(9 - NumDigits(n[1])))
        Exponent(ed) ==
            IF Len(ed) <= 6
            THEN Normal(FloatNorm(StrToInt(StripZeros(digits)),
                                  (IF expNeg THEN -StrToInt(ed) ELSE StrToInt(ed)) - fracLen))
            ELSE IF StripZeros(digits) = "" \/ expNeg THEN FloatVal("finite", neg, 0, 0)
            ELSE FloatVal("inf", neg, 0, 0)
    IN Exponent(StripZeros(expDigits))

\* the end of the integer part (0|[1-9][0-9]*) that starts at from; from when
\* no digit is there
IntEnd(s, from) ==
    IF from <= Len(s) /\ CharAt(s, from) = "0" THEN from + 1 ELSE DigitsEnd(s, from)

\* the end of the fraction (\.[0-9]+)? that starts at to
FracEnd(s, to) ==
    IF to <= Len(s) /\ CharAt(s, to) = "." /\ DigitsEnd(s, to + 1) > to + 1
    THEN DigitsEnd(s, to + 1) ELSE to

\* the position of the digits of an exponent that starts at p: after the e
\* and its sign
ExpDigitsFrom(s, p) ==
    IF p + 1 <= Len(s) /\ CharAt(s, p + 1) \in {"-", "+"} THEN p + 2 ELSE p + 1

\* the end of the exponent ([eE][-+]?[0-9]+)? that starts at p
ExpEnd(s, p) ==
    IF /\ p <= Len(s) /\ CharAt(s, p) \in {"e", "E"}
       /\ DigitsEnd(s, ExpDigitsFrom(s, p)) > ExpDigitsFrom(s, p)
    THEN DigitsEnd(s, ExpDigitsFrom(s, p)) ELSE p

\* the JSON number at position i, as NUMBER_RE of json.scanner matches it:
\* -?(0|[1-9][0-9]*)(\.[0-9]+)?([eE][-+]?[0-9]+)? ; an int is read as <<n>>, a
\* number with a fraction or an exponent as a float
ParseNumber(s, i) ==
    LET Number(neg, from, to, fracEnd, expEnd) ==
            IF to = from THEN ParseFail
            ELSE IF expEnd = to
            THEN ParseOk(Some(IF neg THEN -StrToInt(SubSeq(s, from, to - 1))
                              ELSE StrToInt(SubSeq(s, from, to - 1))), to)
            ELSE ParseOk(JsonFloat(FloatOf(neg,
                            SubSeq(s, from, to - 1) \o SubSeq(s, to + 1, fracEnd - 1),
                            IF fracEnd > to THEN fracEnd - to - 1 ELSE 0,
                            expEnd > fracEnd /\ CharAt(s, fracEnd + 1) = "-",
                            IF expEnd > fracEnd
                            THEN SubSeq(s, ExpDigitsFrom(s, fracEnd), expEnd - 1) ELSE "0")),
                         expEnd)
        Fraction(neg, from, to, fracEnd) == Number(neg, from, to, fracEnd, ExpEnd(s, fracEnd))
        Integer(neg, from, to) == Fraction(neg, from, to, FracEnd(s, to))
        Signed(neg, from) == Integer(neg, from, IntEnd(s, from))
    IN IF i <= Len(s) /\ CharAt(s, i) = "-" THEN Signed(TRUE, i + 1) ELSE Signed(FALSE, i)

\* the dict of a sequence of <<key, value>> pairs: the last value of a key
DictOf(pairs) ==
    [key \in {pairs[k][1] : k \in 1..Len(pairs)} |->
        pairs[CHOOSE k \in 1..Len(pairs) :
                 /\ pairs[k][1] = key
                 /\ \A m \in (k + 1)..Len(pairs) : pairs[m][1] # key][2]]

\* a list as a JSON value
JsonArray(values) == <<"array", values>>

RECURSIVE ScanOnce(_, _)
RECURSIVE ParseMembers(_, _, _)
RECURSIVE ParseItems(_, _, _)

\* the members of a JSON object from position i on (a key is expected
\* there), acc the <<key, value>> pairs read
ParseMembers(s, i, acc) ==
    LET After(key, val, after) ==
            IF after > Len(s) THEN ParseFail
            ELSE IF CharAt(s, after) = "}"
            THEN ParseOk(Append(acc, <<key.val, val.val>>), after + 1)
            ELSE IF CharAt(s, after) = ","
            THEN ParseMembers(s, SkipWs(s, after + 1), Append(acc, <<key.val, val.val>>))
            ELSE ParseFail
        Value(key, val) == IF ~val.ok THEN ParseFail ELSE After(key, val, SkipWs(s, val.next))
        Colon(key, colon) ==
            IF colon > Len(s) \/ CharAt(s, colon) # ":" THEN ParseFail
            ELSE Value(key, ScanOnce(s, SkipWs(s, colon + 1)))
        Key(key) == IF ~key.ok THEN ParseFail ELSE Colon(key, SkipWs(s, key.next))
    IN IF i > Len(s) \/ CharAt(s, i) # "\"" THEN ParseFail
       ELSE Key(ScanString(s, i + 1))

\* a JSON object at position i (JSONObject): a dict
ParseObject(s, i) ==
    LET Members(members) ==
            IF members.ok THEN ParseOk(DictOf(members.val), members.next) ELSE ParseFail
        First(first) ==
            IF first <= Len(s) /\ CharAt(s, first) = "}" THEN ParseOk(DictOf(<<>>), first + 1)
            ELSE Members(ParseMembers(s, first, <<>>))
    IN First(SkipWs(s, i + 1))

\* the items of a JSON array from position i on (a value is expected there),
\* acc the values read
ParseItems(s, i, acc) ==
    LET After(val, after) ==
            IF after > Len(s) THEN ParseFail
            ELSE IF CharAt(s, after) = "]" THEN ParseOk(Append(acc, val.val), after + 1)
            ELSE IF CharAt(s, after) = ","
            THEN ParseItems(s, SkipWs(s, after + 1), Append(acc, val.val))
            ELSE ParseFail
        Value(val) == IF ~val.ok THEN ParseFail ELSE After(val, SkipWs(s, val.next))
    IN Value(ScanOnce(s, i))

\* a JSON array at position i (JSONArray): a list
ParseArray(s, i) ==
    LET Items(items) ==
            IF items.ok THEN ParseOk(JsonArray(items.val), items.next) ELSE ParseFail
        First(first) ==
            IF first <= Len(s) /\ CharAt(s, first) = "]" THEN ParseOk(JsonArray(<<>>), first + 1)
            ELSE Items(ParseItems(s, first, <<>>))
    IN First(SkipWs(s, i + 1))

\* the JSON value at position i (scan_once of json.scanner)
ScanOnce(s, i) ==
    LET Number(num) ==
            IF num.ok THEN num
            ELSE IF MatchAt(s, "NaN", i)
            THEN ParseOk(JsonFloat(FloatVal("nan", FALSE, 0, 0)), i + 3)
            ELSE IF MatchAt(s, "Infinity", i)
            THEN ParseOk(JsonFloat(FloatVal("inf", FALSE, 0, 0)), i + 8)
            ELSE IF MatchAt(s, "-Infinity", i)
            THEN ParseOk(JsonFloat(FloatVal("inf", TRUE, 0, 0)), i + 9)
            ELSE ParseFail
    IN IF i > Len(s) THEN ParseFail
       ELSE IF CharAt(s, i) = "\"" THEN ScanString(s, i + 1)
       ELSE IF CharAt(s, i) = "{" THEN ParseObject(s, i)
       ELSE IF CharAt(s, i) = "[" THEN ParseArray(s, i)
       ELSE IF MatchAt(s, "null", i) THEN ParseOk(None, i + 4)
       ELSE IF MatchAt(s, "true", i) THEN ParseOk(TRUE, i + 4)
       ELSE IF MatchAt(s, "false", i) THEN ParseOk(FALSE, i + 5)
       ELSE Number(ParseNumber(s, i))

\* json.loads(line): None for a json.JSONDecodeError, else <<the value>>
JsonLoads(line) ==
    LET Decoded(r) ==
            IF r.ok /\ SkipWs(line, r.next) = Len(line) + 1 THEN Some(r.val) ELSE None
    IN Decoded(ScanOnce(line, SkipWs(line, 1)))

\* the text of the file; no file reads as no text
FileText(file) == IF file = None THEN "" ELSE file[1]

LinesOf(file) == SplitLines(FileText(file))

RECURSIVE DumpLines(_)
\* the text written for the profiles: one line each
DumpLines(saved) ==
    IF saved = <<>> THEN ""
    ELSE JsonDumps(saved[1]) \o "\n" \o DumpLines(SubSeq(saved, 2, Len(saved)))

\* the line can be written to the file, which is opened with
\* encoding="utf-8": f.write raises UnicodeEncodeError on a surrogate
Encodable(line) == ~Contains(line, SURROGATE)

RECURSIVE WrittenOf(_, _)
\* the profiles of saved whose lines are written: the loop over the profiles
\* ends at the first f.write that raises, the lines written before it stay
\* in the file and nothing of the line that raised is written. lineOf[p] is
\* json.dumps(p, ensure_ascii=False) + "\n", tabulated over the records of a
\* specification (CkLine, RunLine)
WrittenOf(lineOf, saved) ==
    IF saved = <<>> THEN <<>>
    ELSE IF ~Encodable(lineOf[saved[1]]) THEN <<>>
    ELSE <<saved[1]>> \o WrittenOf(lineOf, SubSeq(saved, 2, Len(saved)))

\* _save_profiles_incrementally(saved) raises
SaveRaises(lineOf, saved) == WrittenOf(lineOf, saved) # saved

RECURSIVE WrittenText(_, _)
\* the lines of the profiles, one after the other
WrittenText(lineOf, saved) ==
    IF saved = <<>> THEN ""
    ELSE lineOf[saved[1]] \o WrittenText(lineOf, SubSeq(saved, 2, Len(saved)))

\* the file opened with "w": the lines written replace the file
SaveProfiles_Overwrite(lineOf, file, saved) ==
    IF saved = <<>> THEN file ELSE Some(WrittenText(lineOf, WrittenOf(lineOf, saved)))

\* the file after _save_profiles_incrementally(saved), whether the call
\* returned or raised: open(..., "a") creates a file that does not exist
SaveProfilesIncrementally(lineOf, file, saved) ==
    IF saved = <<>> THEN file
    ELSE Some(FileText(file) \o WrittenText(lineOf, WrittenOf(lineOf, saved)))

RECURSIVE LoadLines(_)
\* the values decoded from the lines, the lines that do not decode left out
LoadLines(lines) ==
    LET Decoded(v) == IF v = None THEN <<>> ELSE <<v[1]>>
    IN IF lines = <<>> THEN <<>>
       ELSE Decoded(JsonLoads(lines[1])) \o LoadLines(SubSeq(lines, 2, Len(lines)))

\* load_incremental_profiles()
LoadIncrementalProfiles(file) ==
    IF file = None THEN <<>> ELSE LoadLines(LinesOf(file))

\* the file after clear_incremental_file()
ClearIncrementalFile(file) == None

\* bound of the records saved
MaxSaved == 3

\* the records tried: names with a quote, a backslash, a newline, two other
\* control characters, a line separator and a surrogate, all with the same
\* public URL
CkNames ==
    {"Ann Lee", "Ann" \o LINE_SEP \o "Lee", "A\"q\" \\n\n" \o VT \o US, "Ann" \o SURROGATE}
CkRecords ==
    {ProfileRecord(n, "Engineer", "Acme", "Paris, France",
                   "https://www.linkedin.com/in/ann-lee-1", y, "") :
        n \in CkNames, y \in {None, Some(2017)}}

\* the line written for each record
CkLine == [rec \in CkRecords |-> DumpLines(<<rec>>)]

CheckpointIdle == ckFile = None /\ ckSaved = <<>> /\ ckLoaded = <<>>

CheckpointInit == CheckpointIdle

\* _save_profiles_incrementally(group), which returns or raises
SaveCall ==
    /\ Len(ckSaved) < MaxSaved
    /\ \E group \in SeqsUpTo(CkRecords, MaxSaved - Len(ckSaved)) :
         /\ ckFile' = SaveProfilesIncrementally(CkLine, ckFile, group)
         /\ ckSaved' = ckSaved \o WrittenOf(CkLine, group)
    /\ ckLoaded' = <<>>

\* load_incremental_profiles()
LoadCall ==
    /\ ckLoaded = <<>>
    /\ ckLoaded' = <<LoadIncrementalProfiles(ckFile)>>
    /\ UNCHANGED <<ckFile, ckSaved>>

\* clear_incremental_file()
ClearCall ==
    /\ ckFile' = ClearIncrementalFile(ckFile)
    /\ ckSaved' = <<>>
    /\ ckLoaded' = <<>>

(* C11: the list load_incremental_profiles returns is the sequence of the
   records saved since the file was last cleared, in the order they were
   saved, whatever the grouping of the saves; records with the same URL are
   all returned. *)
C11_RoundTrip ==
    ckLoaded # <<>> => ckLoaded[1] = ckSaved

-----------------------------------------------------------------------------
(* A run: search.py, run_search, and profile_navigation.py,
   process_page_via_navigation *)

\* bound of the candidates of a results page
MaxCands == 2

\* the configurations tried. run_search hands the whitelist on to
\* _extract_from_open_panel and does nothing else with it: one whitelist
\* accepts the title of the panels of the runs, the other rejects it
\* (extraction without a whitelist is in PanelWhitelists).
StartPages == {1, 2}
MaxPagesChoices == {1, 2}
RunWhitelists == {Some({"engineer"}), Some({"designer"})}

\* page_num of process_page_via_navigation when the caller passes none
DefaultPageNum == 0

\* the panels the site shows during a run
RunPanel(name, link, fault) ==
    [name |-> name, title |-> "Software Engineer", company |-> "Acme",
     location |-> "Brooklyn, New York, United States",
     items |-> <<[degree |-> "Bachelor of Science", time |-> "2017"]>>,
     showMoreBtn |-> FALSE, pubButton |-> TRUE, link |-> link,
     fallback |-> None, fault |-> fault]

RunLink == Some("https://www.linkedin.com/in/ann-lee-1?trk=x")

\* a name with the line separator U+2028 in it
RunNameSep == "Ann" \o LINE_SEP \o "Lee"

\* the faults of the panels of the runs: in the resolution of the public
\* URL, the driver raises before the click or after it
RunFaults == {"none", "panel", "edu", "title", "url_button", "url_escape"}

\* a name with a surrogate in it
RunNameSurrogate == "Ann" \o SURROGATE

RunPanels ==
    {RunPanel(IF f \in UrlFaults THEN RunNameSep ELSE "Ann Lee", RunLink, f) : f \in RunFaults}
       \cup {RunPanel("LinkedIn Member", RunLink, "none"),
             RunPanel(RunNameSep, None, "none"),
             RunPanel(RunNameSurrogate, RunLink, "none")}

\* _extract_from_open_panel on each panel of the run, for each whitelist
RunExtractions ==
    [wl \in RunWhitelists |-> [panel \in RunPanels |-> ExtractFromOpenPanel(panel, wl)]]

\* the records the extractions of a run can return, and the line written
\* for each
RunRecords ==
    UNION {{RunExtractions[wl][panel].rec[1] :
               panel \in {q \in RunPanels : RunExtractions[wl][q].rec # None}} :
           wl \in RunWhitelists}

RunLine == [rec \in RunRecords |-> DumpLines(<<rec>>)]

\* the states of a "next" affordance: the panel's next-candidate link and
\* the result list's next-page link
NextButtons == {"absent", "hidden", "disabled", "enabled", "raises"}

\* the next-page link of the results page as _go_next reads it: no element,
\* or an element with its disabled and aria-disabled attributes
NextPageLinks ==
    {None} \cup {Some([disabled |-> dis, aria_disabled |-> aria]) :
                    dis \in {None, Some(""), Some("disabled")},
                    aria \in {None, Some("true"), Some("false")}}

\* what the driver does during _go_next
GoNextFaults == {"none", "raises", "load_timeout"}

\* _go_next: `if is_disabled or aria_disabled == "true"` on the attributes of
\* the link; a raising driver call is caught and gives False, as does a load
\* wait that raises after the click
GoNextOutcome(link, fault) ==
    IF fault = "raises" THEN "raises"
    ELSE IF link = None THEN "absent"
    ELSE IF \/ (link[1].disabled # None /\ link[1].disabled[1] # "")
            \/ link[1].aria_disabled = Some("true")
         THEN "disabled"
    ELSE IF fault = "load_timeout" THEN "load_timeout"
    ELSE "enabled"

\* an interaction that is a click or a key press
IsUiAction(e) == MatchAt(e, "click:", 1) \/ MatchAt(e, "key:", 1)

RECURSIVE PaceAfter(_, _, _)
\* the pacing after the interactions ui: pending, a click or key press has
\* not been followed by a random_sleep yet; broken, a click or key press was
\* issued while one was pending
PaceAfter(ui, pending, broken) ==
    IF ui = <<>> THEN [pending |-> pending, broken |-> broken]
    ELSE LET e == ui[1]
             rest == SubSeq(ui, 2, Len(ui))
         IN IF e = "sleep" THEN PaceAfter(rest, FALSE, broken)
            ELSE IF IsUiAction(e) THEN PaceAfter(rest, TRUE, broken \/ pending)
            ELSE PaceAfter(rest, pending, broken)

\* the step issues the interactions ui
Issues(ui) ==
    /\ unpaced' = PaceAfter(ui, unpaced, FALSE).pending
    /\ uiBroken' = PaceAfter(ui, unpaced, FALSE).broken

\* resume_msg
ResumeMsg(page_num, candidate_num) ==
    IF page_num # 0
    THEN "page " \o IntToStr(page_num) \o ", candidate " \o IntToStr(candidate_num)
    ELSE "candidate " \o IntToStr(candidate_num)

\* the records among the outcomes of the extractions, in order
RECURSIVE RecordsOf(_)
RecordsOf(outs) ==
    IF outs = <<>> THEN <<>>
    ELSE (IF outs[1] = None THEN <<>> ELSE <<outs[1][1]>>)
         \o RecordsOf(SubSeq(outs, 2, Len(outs)))

cfgVars == <<rerun, startPage, maxPages, titleWl, urlSet>>
mainVars == <<browserUsed, cfgError, mainAll>>
searchVars == <<pageNum, lastPage, allProfiles, result, endedBy, traversed, nextClicked, returned>>
pageVars == <<candidateNum, profiles, lastExt, outcomes, crashedAt, resumeMsg, pageEnd, nextBtn, candClicks>>

RunIdle ==
    /\ rerun = FALSE /\ rsPc = "idle" /\ interrupted = FALSE
    /\ startPage = 1 /\ maxPages = 1 /\ titleWl = None /\ urlSet = TRUE
    /\ browserUsed = FALSE /\ cfgError = "none" /\ mainAll = None
    /\ pageNum = 0 /\ lastPage = 0 /\ allProfiles = <<>> /\ result = None
    /\ endedBy = "none" /\ traversed = {} /\ nextClicked = {} /\ returned = <<>>
    /\ ppPc = "none" /\ candidateNum = 0 /\ profiles = <<>> /\ lastExt = None
    /\ outcomes = <<>> /\ crashedAt = 0 /\ resumeMsg = None
    /\ pageEnd = "none" /\ nextBtn = "none" /\ candClicks = 0
    /\ unpaced = FALSE /\ uiBroken = FALSE
    /\ logFile = None

Running ==
    ~interrupted /\ rsPc \in {"browser", "goto", "wait_results", "traverse", "go_next"}

\* main starts (the program is run again once the run before has ended, any
\* number of times): browser = None, all_profiles = []. What the
\* configuration and the whitelist file hold shows where run_search reads
\* them.
StartRun ==
    /\ (rsPc = "idle" \/ mainAll # None)
    /\ rerun' = (rsPc # "idle")
    /\ rsPc' = "browser" /\ interrupted' = FALSE
    /\ startPage' = 1 /\ maxPages' = 1 /\ titleWl' = None /\ urlSet' = TRUE
    /\ browserUsed' = FALSE /\ cfgError' = "none" /\ mainAll' = None
    /\ pageNum' = 0 /\ lastPage' = 0 /\ allProfiles' = <<>> /\ result' = None
    /\ endedBy' = "none" /\ traversed' = {} /\ nextClicked' = {} /\ returned' = <<>>
    /\ ppPc' = "none" /\ candidateNum' = 0 /\ profiles' = <<>> /\ lastExt' = None
    /\ outcomes' = <<>> /\ crashedAt' = 0 /\ resumeMsg' = None
    /\ pageEnd' = "none" /\ nextBtn' = "none" /\ candClicks' = 0
    /\ unpaced' = FALSE /\ uiBroken' = FALSE
    /\ UNCHANGED logFile

\* init_browser(config["browser"]) and login_to_linkedin(page, ...): the
\* browser is launched or connected to and the login page loaded; then
\* run_search is called. A driver call that raises ends the try block.
InitBrowser ==
    /\ Running /\ rsPc = "browser"
    /\ browserUsed' = TRUE
    /\ \E ok \in BOOLEAN : rsPc' = IF ok THEN "goto" ELSE "failed"
    /\ UNCHANGED <<cfgVars, cfgError, mainAll, interrupted, searchVars, ppPc, pageVars,
                   unpaced, uiBroken, logFile>>

\* run_search returns (all_profiles, last_page); why is what ended the loop
\* over the pages
Return(all, last, why) ==
    rsPc' = "done" /\ result' = Some(<<all, last>>) /\ endedBy' = why

\* run_search up to the loop over the pages: the URL, start_page and
\* max_pages are read from search_config (title_whitelist is an argument) and
\* `if not url: raise ValueError(...)`; then the start offset is written into
\* the URL, page.goto and random_sleep, all_profiles = [],
\* last_page = start_page, clear_incremental_file() and the entry of the loop
Goto ==
    /\ Running /\ rsPc = "goto"
    /\ startPage' \in StartPages
    /\ maxPages' \in MaxPagesChoices
    /\ titleWl' \in RunWhitelists
    /\ urlSet' \in BOOLEAN
    /\ \E ok \in BOOLEAN :
         IF urlSet' /\ ok
         THEN /\ allProfiles' = <<>>
              /\ logFile' = ClearIncrementalFile(logFile)
              /\ Issues(<<"goto", "sleep">>)
              /\ IF startPage' <= maxPages'
                 THEN /\ pageNum' = startPage' /\ lastPage' = startPage'
                      /\ rsPc' = "wait_results" /\ UNCHANGED <<result, endedBy>>
                 ELSE /\ lastPage' = startPage' /\ Return(<<>>, startPage', "empty_range")
                      /\ UNCHANGED pageNum
              /\ UNCHANGED cfgError
         ELSE /\ rsPc' = "failed"
              /\ cfgError' = IF urlSet' THEN cfgError ELSE "url"
              /\ UNCHANGED <<allProfiles, logFile, pageNum, lastPage, result, endedBy,
                             unpaced, uiBroken>>
    /\ UNCHANGED <<rerun, browserUsed, mainAll, interrupted, traversed, nextClicked,
                   returned, ppPc, pageVars>>

\* the timeout of the wait for the result rows logged and not acted on
WaitResults_TimeoutIgnored ==
    /\ Running /\ rsPc = "wait_results"
    /\ \E found \in BOOLEAN :
         /\ rsPc' = "traverse" /\ ppPc' = "open"
         /\ traversed' = traversed \cup {pageNum}
         /\ profiles' = <<>> /\ candidateNum' = 0 /\ outcomes' = <<>>
         /\ crashedAt' = 0 /\ resumeMsg' = None
         /\ pageEnd' = "none" /\ nextBtn' = "none" /\ candClicks' = 0
         /\ endedBy' = IF found THEN endedBy ELSE "results_timeout"
         /\ UNCHANGED result
    /\ Issues(<<>>)
    /\ UNCHANGED <<cfgVars, mainVars, interrupted, pageNum, lastPage, allProfiles, nextClicked,
                   returned, lastExt, logFile>>

\* page.wait_for_selector for the result rows; on a timeout: break
WaitResults ==
    /\ Running /\ rsPc = "wait_results"
    /\ \E found \in BOOLEAN :
         IF found
         THEN /\ rsPc' = "traverse" /\ ppPc' = "open"
              /\ traversed' = traversed \cup {pageNum}
              /\ profiles' = <<>> /\ candidateNum' = 0 /\ outcomes' = <<>>
              /\ crashedAt' = 0 /\ resumeMsg' = None
              /\ pageEnd' = "none" /\ nextBtn' = "none" /\ candClicks' = 0
              /\ UNCHANGED <<result, endedBy>>
         ELSE /\ Return(allProfiles, lastPage, "results_timeout")
              /\ UNCHANGED <<ppPc, profiles, candidateNum, outcomes, crashedAt,
                             resumeMsg, pageEnd, nextBtn, candClicks, traversed>>
    /\ Issues(<<>>)
    /\ UNCHANGED <<cfgVars, mainVars, interrupted, pageNum, lastPage, allProfiles, nextClicked,
                   returned, lastExt, logFile>>

\* the records of a page put before those of the earlier pages
ReturnPage_Prepend(why) ==
    /\ ppPc' = "none"
    /\ allProfiles' = profiles \o allProfiles
    /\ returned' = Append(returned, <<pageNum, profiles>>)
    /\ rsPc' = "go_next"
    /\ pageEnd' = why
    /\ nextBtn' = "none"

\* process_page_via_navigation returns profiles, why is what ended it;
\* all_profiles.extend(profiles)
ReturnPage(why) ==
    /\ ppPc' = "none"
    /\ allProfiles' = allProfiles \o profiles
    /\ returned' = Append(returned, <<pageNum, profiles>>)
    /\ rsPc' = "go_next"
    /\ pageEnd' = why
    /\ nextBtn' = "none"

\* the Hiring Assistant panel, when it is there with its close button, is
\* closed, and the first candidate link is clicked; without a link the
\* traversal returns; a driver call that raises while the link is looked up,
\* scrolled to or clicked is caught nowhere in the traversal or in run_search
OpenFirstCandidate ==
    /\ Running /\ rsPc = "traverse" /\ ppPc = "open"
    /\ \E modal \in BOOLEAN, first_link \in {"absent", "present", "raises"} :
         LET closeModal == IF modal THEN <<"click:close_modal", "sleep">> ELSE <<>>
         IN CASE first_link = "present" ->
                 /\ ppPc' = "wait_panel"
                 /\ Issues(closeModal \o <<"scroll", "sleep", "click:first_link", "sleep">>)
                 /\ UNCHANGED <<allProfiles, returned, rsPc, pageEnd, nextBtn>>
              [] first_link = "absent" ->
                 ReturnPage("no_link") /\ Issues(closeModal)
              [] first_link = "raises" ->
                 /\ rsPc' = "failed" /\ Issues(closeModal)
                 /\ UNCHANGED <<ppPc, allProfiles, returned, pageEnd, nextBtn>>
    /\ UNCHANGED <<cfgVars, mainVars, interrupted, pageNum, lastPage, result, endedBy, traversed,
                   nextClicked, candidateNum, profiles, lastExt, outcomes, crashedAt,
                   resumeMsg, candClicks, logFile>>

\* page.wait_for_selector for the panel; when it raises, page.screenshot and
\* the return of the traversal; a screenshot that raises is caught nowhere in
\* the traversal or in run_search
WaitPanel ==
    /\ Running /\ rsPc = "traverse" /\ ppPc = "wait_panel"
    /\ \E opened \in BOOLEAN, shot \in BOOLEAN :
         IF opened
         THEN /\ ppPc' = "crash_check" /\ candidateNum' = 0
              /\ UNCHANGED <<allProfiles, returned, rsPc, pageEnd, nextBtn>>
         ELSE IF shot
         THEN ReturnPage("panel_timeout") /\ UNCHANGED candidateNum
         ELSE /\ rsPc' = "failed" /\ pageEnd' = "panel_timeout"
              /\ UNCHANGED <<ppPc, allProfiles, returned, nextBtn, candidateNum>>
    /\ Issues(<<>>)
    /\ UNCHANGED <<cfgVars, mainVars, interrupted, pageNum, lastPage, result, endedBy, traversed,
                   nextClicked, profiles, lastExt, outcomes, crashedAt, resumeMsg,
                   candClicks, logFile>>

\* a crash reported by the check going unnoticed
CrashCheck_Ignored ==
    /\ Running /\ rsPc = "traverse" /\ ppPc = "crash_check"
    /\ candidateNum' = candidateNum + 1
    /\ \E crashed \in BOOLEAN :
         /\ ppPc' = "extract"
         /\ crashedAt' = IF crashed THEN candidateNum' ELSE crashedAt
         /\ UNCHANGED <<resumeMsg, pageEnd>>
    /\ Issues(<<>>)
    /\ UNCHANGED <<cfgVars, mainVars, rsPc, interrupted, searchVars, profiles, lastExt, outcomes,
                   nextBtn, candClicks, logFile>>

\* candidate_num += 1 and the crashed-tab check; on a crash the resume
\* message is logged and the loop is left (break). run_search calls the
\* traversal without a page number.
CrashCheck ==
    /\ Running /\ rsPc = "traverse" /\ ppPc = "crash_check"
    /\ candidateNum' = candidateNum + 1
    /\ \E crashed \in BOOLEAN :
         IF crashed
         THEN /\ ppPc' = "close"
              /\ crashedAt' = candidateNum'
              /\ resumeMsg' = Some(ResumeMsg(DefaultPageNum, candidateNum'))
              /\ pageEnd' = "crash"
         ELSE /\ ppPc' = "extract"
              /\ UNCHANGED <<crashedAt, resumeMsg, pageEnd>>
    /\ Issues(<<>>)
    /\ UNCHANGED <<cfgVars, mainVars, rsPc, interrupted, searchVars, profiles, lastExt, outcomes,
                   nextBtn, candClicks, logFile>>

\* profile_data = await _extract_from_open_panel(page, title_whitelist) and,
\* for a record, profiles.append(profile_data)
ExtractStep ==
    /\ Running /\ rsPc = "traverse" /\ ppPc = "extract"
    /\ \E panel \in RunPanels :
         LET r == RunExtractions[titleWl][panel]
         IN /\ lastExt' = Some([raised |-> r.raised, gate |-> r.gate, rec |-> r.rec])
            /\ outcomes' = Append(outcomes, r.rec)
            /\ Issues(r.ui)
            /\ IF r.rec # None
               THEN profiles' = Append(profiles, r.rec[1]) /\ ppPc' = "save"
               ELSE ppPc' = "advance" /\ UNCHANGED profiles
    /\ UNCHANGED <<cfgVars, mainVars, rsPc, interrupted, searchVars, candidateNum, crashedAt,
                   resumeMsg, pageEnd, nextBtn, candClicks, logFile>>

\* _save_profiles_incrementally([profile_data]). When it raises, the handler
\* `except Exception` of the loop logs the resume message and the loop is
\* left: the record is in profiles and not in the file.
SaveStep ==
    /\ Running /\ rsPc = "traverse" /\ ppPc = "save"
    /\ LET Save(lineOf, saved) ==
           /\ logFile' = SaveProfilesIncrementally(lineOf, logFile, saved)
           /\ IF SaveRaises(lineOf, saved)
              THEN /\ ppPc' = "close"
                   /\ resumeMsg' = Some(ResumeMsg(DefaultPageNum, candidateNum))
                   /\ pageEnd' = "error"
                   /\ lastExt' = None
              ELSE /\ ppPc' = "advance"
                   /\ UNCHANGED <<resumeMsg, pageEnd, lastExt>>
       IN Save(RunLine, <<profiles[Len(profiles)]>>)
    /\ Issues(<<>>)
    /\ UNCHANGED <<cfgVars, mainVars, rsPc, interrupted, searchVars, candidateNum, profiles,
                   outcomes, crashedAt, nextBtn, candClicks>>

\* a hidden next-candidate link clicked like a visible one
AdvanceStep_ClickHidden ==
    /\ Running /\ rsPc = "traverse" /\ ppPc = "advance"
    /\ \E btn \in NextButtons :
         /\ btn \in {"enabled", "hidden"} => candidateNum < MaxCands
         /\ nextBtn' = btn
         /\ IF btn \in {"enabled", "hidden"}
            THEN /\ ppPc' = "crash_check"
                 /\ candClicks' = candClicks + 1
                 /\ Issues(<<"click:next_candidate", "sleep", "sleep">>)
                 /\ UNCHANGED pageEnd
            ELSE /\ ppPc' = "close"
                 /\ Issues(<<>>)
                 /\ pageEnd' = "last_candidate"
                 /\ UNCHANGED candClicks
    /\ lastExt' = None
    /\ UNCHANGED <<cfgVars, mainVars, rsPc, interrupted, searchVars, candidateNum, profiles,
                   outcomes, crashedAt, resumeMsg, logFile>>

\* _click_next_candidate: the link is clicked unless it is absent, hidden or
\* disabled, or the driver raises; clicked: random_sleep in the function and
\* in the loop; not clicked: break
AdvanceStep ==
    /\ Running /\ rsPc = "traverse" /\ ppPc = "advance"
    /\ \E btn \in NextButtons :
         /\ btn = "enabled" => candidateNum < MaxCands
         /\ nextBtn' = btn
         /\ IF btn = "enabled"
            THEN /\ ppPc' = "crash_check"
                 /\ candClicks' = candClicks + 1
                 /\ Issues(<<"click:next_candidate", "sleep", "sleep">>)
                 /\ UNCHANGED pageEnd
            ELSE /\ ppPc' = "close"
                 /\ Issues(<<>>)
                 /\ pageEnd' = "last_candidate"
                 /\ UNCHANGED candClicks
    /\ lastExt' = None
    /\ UNCHANGED <<cfgVars, mainVars, rsPc, interrupted, searchVars, candidateNum, profiles,
                   outcomes, crashedAt, resumeMsg, logFile>>

\* the call of _close_profile_panel at which the driver raises
ClosePanelFaults == {"none", "escape", "query", "click"}

\* _close_profile_panel: the interactions made. The whole body is inside one
\* try: when the driver raises at the press of Escape or at the look-up of
\* the close button the function returns, and the interactions made before
\* that call stay made; a click on the close button that raises is passed
\* over.
CloseProfilePanel(close_btn, fault) ==
    IF fault = "escape" THEN <<>>
    ELSE IF fault = "query" \/ ~close_btn \/ fault = "click" THEN <<"key:Escape", "sleep">>
    ELSE <<"key:Escape", "sleep", "click:close">>

\* _close_profile_panel, random_sleep and the return of the traversal
ClosePanel ==
    /\ Running /\ rsPc = "traverse" /\ ppPc = "close"
    /\ ReturnPage(pageEnd)
    /\ \E close_btn \in BOOLEAN, fault \in ClosePanelFaults :
         Issues(CloseProfilePanel(close_btn, fault) \o <<"sleep">>)
    /\ UNCHANGED <<cfgVars, mainVars, interrupted, pageNum, lastPage, result, endedBy, traversed,
                   nextClicked, candidateNum, profiles, lastExt, outcomes, crashedAt,
                   resumeMsg, candClicks, logFile>>

\* _go_next: the next-page link is clicked unless it is absent or disabled, or
\* the driver raises; not clicked, or the wait for the load raises: break;
\* else random_sleep in the function and in the loop, and the next iteration
\* of `for page_num in range(start_page, max_pages + 1)`, if there is one
GoNext ==
    /\ Running /\ rsPc = "go_next"
    /\ \E link \in NextPageLinks, fault \in GoNextFaults :
       LET out == GoNextOutcome(link, fault) IN
         /\ nextClicked' = IF out \in {"enabled", "load_timeout"}
                           THEN nextClicked \cup {pageNum} ELSE nextClicked
         /\ Issues(IF out = "enabled" THEN <<"click:next_page", "sleep", "sleep">>
                   ELSE IF out = "load_timeout" THEN <<"click:next_page">>
                   ELSE <<>>)
         /\ IF out = "enabled" /\ pageNum + 1 <= maxPages
            THEN /\ pageNum' = pageNum + 1 /\ lastPage' = pageNum + 1
                 /\ rsPc' = "wait_results" /\ UNCHANGED <<result, endedBy>>
            ELSE /\ Return(allProfiles, lastPage,
                           IF out = "enabled" THEN "pages_done"
                           ELSE IF out \in {"absent", "disabled"} THEN "no_next"
                           ELSE "next_error")
                 /\ UNCHANGED <<pageNum, lastPage>>
    /\ UNCHANGED <<cfgVars, mainVars, interrupted, allProfiles, returned, traversed, ppPc,
                   pageVars, logFile>>

\* the operator interrupts the run, wherever it is (KeyboardInterrupt, which
\* the handlers of the traversal and of run_search do not catch: they catch
\* Exception). The interrupt reaches the program between two steps, or inside
\* a step while it waits for a call of the driver or for a random_sleep: what
\* the step did before that call is done, the call and what follows it in the
\* step are not, and the run stays where it was.
Interrupt ==
    /\ Running
    /\ interrupted' = TRUE
    /\ \/ \* between two steps, or in the first call of a step
          UNCHANGED <<cfgVars, mainVars, rsPc, searchVars, ppPc, pageVars, unpaced, uiBroken,
                      logFile>>
       \/ \* in init_browser or login_to_linkedin, the browser in use
          /\ rsPc = "browser"
          /\ browserUsed' = TRUE
          /\ UNCHANGED <<cfgVars, cfgError, mainAll, rsPc, searchVars, ppPc, pageVars, unpaced,
                         uiBroken, logFile>>
       \/ \* in page.goto of run_search or in the random_sleep after it: the
          \* configuration is read, the file is not cleared
          /\ rsPc = "goto"
          /\ startPage' \in StartPages /\ maxPages' \in MaxPagesChoices
          /\ titleWl' \in RunWhitelists /\ urlSet' = TRUE
          /\ UNCHANGED <<rerun, mainVars, rsPc, searchVars, ppPc, pageVars, unpaced, uiBroken,
                         logFile>>
       \/ \* in the opening of the first candidate, after one of its
          \* interactions and before its last random_sleep is over
          /\ rsPc = "traverse" /\ ppPc = "open"
          /\ \E modal \in BOOLEAN :
               LET ui == (IF modal THEN <<"click:close_modal", "sleep">> ELSE <<>>)
                         \o <<"scroll", "sleep", "click:first_link", "sleep">>
               IN \E n \in 1..(Len(ui) - 1) : Issues(SubSeq(ui, 1, n))
          /\ UNCHANGED <<cfgVars, mainVars, rsPc, searchVars, ppPc, pageVars, logFile>>
       \/ \* in _is_chrome_crashed, after candidate_num += 1
          /\ rsPc = "traverse" /\ ppPc = "crash_check"
          /\ candidateNum' = candidateNum + 1
          /\ UNCHANGED <<cfgVars, mainVars, rsPc, searchVars, ppPc, profiles, lastExt, outcomes,
                         crashedAt, resumeMsg, pageEnd, nextBtn, candClicks, unpaced, uiBroken,
                         logFile>>
       \/ \* in _extract_from_open_panel, after one of its interactions: after
          \* the last one when a call of the driver follows it, which is so
          \* unless it is the screenshot or the random_sleep before the return
          \* of the URL of the revealed link
          /\ rsPc = "traverse" /\ ppPc = "extract"
          /\ \E panel \in RunPanels :
               LET r == RunExtractions[titleWl][panel]
                   last == IF \/ r.ui[Len(r.ui)] = "screenshot"
                              \/ /\ r.gate = "emitted" /\ r.raised # "url" /\ panel.pubButton
                                 /\ panel.link # None /\ panel.link[1] # ""
                           THEN Len(r.ui) - 1 ELSE Len(r.ui)
               IN \E n \in 1..last : Issues(SubSeq(r.ui, 1, n))
          /\ UNCHANGED <<cfgVars, mainVars, rsPc, searchVars, ppPc, pageVars, logFile>>
       \/ \* in the random_sleep of _click_next_candidate or in that of the
          \* loop, the next-candidate link clicked
          /\ rsPc = "traverse" /\ ppPc = "advance" /\ candidateNum < MaxCands
          /\ nextBtn' = "enabled" /\ candClicks' = candClicks + 1
          /\ \E n \in 1..2 : Issues(SubSeq(<<"click:next_candidate", "sleep", "sleep">>, 1, n))
          /\ UNCHANGED <<cfgVars, mainVars, rsPc, searchVars, ppPc, candidateNum, profiles,
                         lastExt, outcomes, crashedAt, resumeMsg, pageEnd, logFile>>
       \/ \* in _close_profile_panel after the Escape key, or in the
          \* random_sleep that follows it in the traversal
          /\ rsPc = "traverse" /\ ppPc = "close"
          /\ \E close_btn \in BOOLEAN, fault \in ClosePanelFaults :
               LET ui == CloseProfilePanel(close_btn, fault) \o <<"sleep">>
               IN \E n \in 1..(Len(ui) - 1) : Issues(SubSeq(ui, 1, n))
          /\ UNCHANGED <<cfgVars, mainVars, rsPc, searchVars, ppPc, pageVars, logFile>>
       \/ \* in _go_next after the click on the next-page link (the wait for
          \* the load, the random_sleep) or in the random_sleep of the loop
          /\ rsPc = "go_next"
          /\ nextClicked' = nextClicked \cup {pageNum}
          /\ \E n \in 1..2 : Issues(SubSeq(<<"click:next_page", "sleep", "sleep">>, 1, n))
          /\ UNCHANGED <<cfgVars, mainVars, rsPc, pageNum, lastPage, allProfiles, result,
                         endedBy, traversed, returned, ppPc, pageVars, logFile>>

\* filtered = apply_filters(all_profiles, config["filters"]): the list handed
\* to write_csv and push_to_airtable
Exported(filters) == ApplyFilters(mainAll[1], filters)

\* a is an initial segment of b
IsPrefix(a, b) == Len(a) <= Len(b) /\ SubSeq(b, 1, Len(a)) = a

\* a is a final segment of b
IsSuffix(a, b) == Len(a) <= Len(b) /\ SubSeq(b, Len(b) - Len(a) + 1, Len(b)) = a

RECURSIVE RunText(_)
\* the lines written for a sequence of records of a run
RunText(recs) ==
    IF recs = <<>> THEN "" ELSE RunLine[recs[1]] \o RunText(SubSeq(recs, 2, Len(recs)))

\* load_incremental_profiles() on a file that holds one written line, for
\* each line the run can write: the line of each record an extraction returns
\* and the save can encode
RunLoaded ==
    [line \in {l \in {DumpLines(<<rec>>) : rec \in RunRecords} : Encodable(l)} |->
        LoadIncrementalProfiles(Some(line))]

RECURSIVE LoadTabulated(_, _)
\* the lists in the table loaded for the lines of the text, one after
\* another; each line ends with its "\n" and holds no other, so one line of
\* the table at most starts the text
LoadTabulated(loaded, text) ==
    IF text = "" THEN <<>>
    ELSE LET line == CHOOSE l \in DOMAIN loaded : IsPrefix(l, text)
         IN loaded[line] \o LoadTabulated(loaded, SubSeq(text, Len(line) + 1, Len(text)))

\* load_incremental_profiles() on the file of a run, whose text is lines
\* written for records: the file is read line by line, so the list loaded is
\* the lists loaded from the written lines, one after another
LoadRunFile(text) == LoadTabulated(RunLoaded, text)

\* config["filters"] of the runs
RunFilterConfigs ==
    {[bachelors_grad_year_min |-> None, bachelors_grad_year_max |-> None,
      no_bachelors_action |-> None],
     [bachelors_grad_year_min |-> Some(2010), bachelors_grad_year_max |-> Some(2024),
      no_bachelors_action |-> Some("flag")]}

\* the finally block of main, reached when run_search has returned, when an
\* exception has left the try block and when the run was interrupted:
\* all_profiles is what run_search returned, or [] when it did not return; an
\* empty all_profiles is replaced by load_incremental_profiles() when that is
\* not empty; a non-empty all_profiles is filtered (Exported) and exported,
\* and push_to_airtable, when enabled, raises ValueError without
\* AIRTABLE_API_KEY. (append_checkpoint in the try block writes another file.)
MainFinally ==
    /\ mainAll = None
    /\ (rsPc \in {"done", "failed"} \/ (interrupted /\ rsPc # "idle"))
    /\ LET all_profiles == IF rsPc = "done" THEN result[1][1] ELSE <<>>
           final == IF all_profiles # <<>> THEN all_profiles
                    ELSE LoadRunFile(FileText(logFile))
       IN /\ mainAll' = Some(final)
          /\ \E airtable \in {"off", "key_set", "key_missing"} :
                cfgError' = IF final # <<>> /\ airtable = "key_missing"
                            THEN "credentials" ELSE cfgError
    /\ UNCHANGED <<cfgVars, browserUsed, rsPc, interrupted, searchVars, ppPc, pageVars,
                   unpaced, uiBroken, logFile>>

(* C8, as stated: whatever step of the extraction of a candidate raised, the
   extraction returned no record. *)
C8_ExceptionGivesNoRecord ==
    (lastExt # None /\ lastExt[1].raised # "none") => lastExt[1].rec = None

(* C8: an exception in the read of the panel fields or in the title match
   ends the extraction of the candidate with no record; an exception in the
   education extraction is absorbed there, the candidate passes the education
   check with the note "no education" and no graduation year and, unless its
   title is rejected, its record is returned; an exception in the resolution
   of the public URL is absorbed there and the record is returned with an
   empty URL. In each case the traversal is at its next step for the candidate
   (the save of the record, then the next-candidate click) and run_search has
   neither returned nor failed. *)
C8_ExceptionsAbsorbed ==
    (lastExt # None /\ lastExt[1].raised # "none") =>
       LET e == lastExt[1]
       IN /\ e.raised \in {"panel", "title"} => (e.rec = None /\ e.gate = "error")
          /\ e.raised = "edu" =>
                /\ e.gate \in {"title", "emitted"}
                /\ e.gate = "title" => e.rec = None
                /\ e.gate = "emitted" =>
                      /\ e.rec # None
                      /\ e.rec[1].needs_review
                      /\ Contains(e.rec[1].review, "no education")
                      /\ e.rec[1].bachelors_grad_year = None
          /\ e.raised = "url" =>
                /\ e.gate = "emitted" /\ e.rec # None
                /\ e.rec[1].linkedin_public_url = ""
          /\ rsPc = "traverse" /\ result = None
          /\ ppPc \in (IF e.rec # None THEN {"save", "advance"} ELSE {"advance"})

\* the education extraction of a candidate raised, its record was returned
\* and saved, and the traversal is at the next-candidate click
C8_Witness ==
    /\ lastExt # None /\ lastExt[1].raised = "edu" /\ lastExt[1].rec # None
    /\ ppPc = "advance" /\ ~interrupted
    /\ FileText(logFile) # ""

\* the records of the run extracted for the candidates before the current
\* step: those of the pages done and those of this page, less the one
\* appended to profiles and not yet handed to the save
EarlierRecords ==
    allProfiles \o (IF ppPc = "none" THEN <<>>
                    ELSE IF ppPc = "save" THEN SubSeq(profiles, 1, Len(profiles) - 1)
                    ELSE profiles)

(* C9, as stated: at every point of a run, interrupted or not, the records
   extracted for the earlier candidates of the run are the last lines of the
   checkpoint file, in the order of extraction; in particular, when the
   traversal is at the next-candidate click the record of the current
   candidate is in the file. *)
C9_SavedBeforeNextClick ==
    /\ IsSuffix(RunText(EarlierRecords), FileText(logFile))
    /\ (rsPc = "traverse" /\ ppPc = "advance" /\ lastExt # None /\ lastExt[1].rec # None)
          => IsSuffix(RunLine[lastExt[1].rec[1]], FileText(logFile))

(* C10, as stated: no step, the start of a run by run_search included, removes
   or rewrites a line of the checkpoint file. *)
C10_AppendOnly ==
    [][IsPrefix(FileText(logFile), FileText(logFile'))]_vars

(* C10: the only step that removes lines of the checkpoint file is the one
   of run_search that follows the first navigation of a run, which deletes the
   file; every other step leaves the lines written so far in place, at the
   head of the file. *)
C10_AppendOnlyWithinRun ==
    [][\/ IsPrefix(FileText(logFile), FileText(logFile'))
       \/ (rsPc = "goto" /\ rsPc' # "failed" /\ logFile' = None)]_vars

\* a second run has deleted the file of the first and written two records
C10_Witness ==
    /\ rerun /\ rsPc \in {"traverse", "go_next", "done"}
    /\ \E r1, r2 \in RunRecords : FileText(logFile) = RunLine[r1] \o RunLine[r2]

(* C12: the crashed-tab check comes before every extraction: the traversal is
   at the extraction of candidate k only when the check for k has reported no
   crash and the k-1 earlier candidates have been extracted; once the check
   has first reported a crash, at candidate k, no extraction is made for k or
   any later candidate of the page, and the traversal returns the records of
   the candidates 1..k-1 and nothing else. *)
C12_CrashStopsExtraction ==
    /\ (rsPc = "traverse" /\ ppPc \in {"extract", "save", "advance"}) => crashedAt = 0
    /\ (rsPc = "traverse" /\ ppPc = "extract") => Len(outcomes) = candidateNum - 1
    /\ crashedAt # 0 =>
          /\ crashedAt = candidateNum
          /\ Len(outcomes) = crashedAt - 1
          /\ profiles = RecordsOf(outcomes)
          /\ pageEnd = "crash"
          /\ (rsPc = "traverse" => ppPc = "close")
          /\ (rsPc # "traverse" =>
                 /\ returned # <<>>
                 /\ returned[Len(returned)][2] = RecordsOf(outcomes)
                 /\ (rsPc = "go_next" => returned[Len(returned)][1] = pageNum))

\* the check reported a crash at the second candidate, after the first was
\* extracted: the traversal has returned the one record
C12_Witness ==
    /\ crashedAt = 2 /\ rsPc = "go_next" /\ ~interrupted
    /\ Len(outcomes) = 1 /\ outcomes[1] # None
    /\ returned[Len(returned)] = <<pageNum, <<outcomes[1][1]>>>>

(* C13, as stated: the resume point logged at a crash names the results page
   on which it happened and the number of the candidate. *)
C13_ResumePointNamesPage ==
    crashedAt # 0 =>
       resumeMsg = Some( "page " \o IntToStr(pageNum) \o ", candidate " \o IntToStr(crashedAt))

(* C14, as stated: when the traversal of a page ended on a detected crash,
   run_search clicks no next-results-page link and attempts no further page:
   it returns. *)
C14_CrashEndsRun ==
    [][(rsPc = "go_next" /\ pageEnd = "crash")
          => (nextClicked' \subseteq nextClicked /\ rsPc' # "wait_results")]_vars

RECURSIVE PageRecords(_)
\* the records of the traversals of a run, page after page
PageRecords(rets) ==
    IF rets = <<>> THEN <<>> ELSE rets[1][2] \o PageRecords(SubSeq(rets, 2, Len(rets)))

(* C15: the pages of a run are traversed in increasing order from startPage,
   one by one, and none is above maxPages; every page before the current one
   had its next-results-page link clicked, and a run that found the link
   absent or disabled ended there without a click; the records accumulated
   are those returned by the traversals, page after page, and run_search
   returns them with the number of the last page attempted. *)
C15_PaginationResult ==
    /\ \A k \in 1..Len(returned) : returned[k][1] = startPage + (k - 1)
    /\ traversed \subseteq startPage..maxPages
    /\ pageNum # 0 =>
          /\ pageNum \in startPage..maxPages
          /\ traversed \subseteq startPage..pageNum
          /\ \A p \in startPage..(pageNum - 1) : p \in traversed /\ p \in nextClicked
    /\ rsPc \in {"wait_results", "go_next", "done"} => allProfiles = PageRecords(returned)
    /\ result # None =>
          /\ result[1][1] = PageRecords(returned)
          /\ result[1][2] = (IF pageNum # 0 THEN pageNum ELSE startPage)
          /\ endedBy = "no_next" => (pageNum \in traversed /\ pageNum \notin nextClicked)
          /\ endedBy = "pages_done" => (pageNum = maxPages /\ pageNum \in traversed)

\* a run from page 1 with two pages allowed: on page 1 one candidate gave a
\* record and one was rejected, the next-page link was disabled, and the run
\* returned the one record and page 1
C15_Witness ==
    /\ rsPc = "done" /\ endedBy = "no_next" /\ startPage = 1 /\ maxPages = 2
    /\ Len(outcomes) = 2 /\ outcomes[1] # None /\ outcomes[2] = None
    /\ result = Some(<<<<outcomes[1][1]>>, 1>>)

(* C17: when the wait for the result rows of page N timed out, the run is
   over: page N was not traversed, no page after N was attempted, and
   run_search has returned the records accumulated on the pages before N,
   with N as the last page. *)
C17_ResultsTimeoutStopsRun ==
    endedBy = "results_timeout" =>
       /\ rsPc = "done" /\ ppPc = "none"
       /\ pageNum \notin traversed
       /\ \A p \in traversed : p < pageNum
       /\ \A k \in 1..Len(returned) : returned[k][1] < pageNum
       /\ result = Some(<<PageRecords(returned), pageNum>>)

\* the wait timed out on page 2 after page 1 gave a record
C17_Witness ==
    /\ endedBy = "results_timeout" /\ pageNum = 2 /\ traversed = {1}
    /\ result # None /\ Len(result[1][1]) >= 1

(* C18: the step after the extraction of a candidate (and the save of its
   record) looks at the next-candidate link. When the link is absent, hidden
   (aria-hidden) or disabled (aria-disabled), or the driver raises, nothing
   is clicked and the traversal goes to the close of the panel with its
   records unchanged; otherwise the link is clicked and the traversal is at
   the crashed-tab check of the next candidate. The close of the panel
   returns the records accumulated for the page to run_search. Every
   candidate after the first is reached by one such click (a run interrupted
   after the click and before the check has made the click for the candidate
   it has not reached). *)
C18_AdvanceStep ==
    [][/\ (~interrupted /\ rsPc = "traverse" /\ ppPc = "advance" /\ ppPc' # "advance") =>
            /\ nextBtn' \in NextButtons
            /\ nextBtn' \in {"absent", "hidden", "disabled", "raises"} =>
                  /\ ppPc' = "close" /\ candClicks' = candClicks
                  /\ profiles' = profiles /\ rsPc' = "traverse"
            /\ nextBtn' = "enabled" =>
                  /\ ppPc' = "crash_check" /\ candClicks' = candClicks + 1
                  /\ profiles' = profiles /\ candidateNum' = candidateNum
       /\ (~interrupted /\ rsPc = "traverse" /\ ppPc = "close" /\ ppPc' # "close") =>
            /\ rsPc' = "go_next" /\ ppPc' = "none"
            /\ returned' = Append(returned, <<pageNum, profiles>>)
            /\ allProfiles' = allProfiles \o profiles
            /\ candClicks' = candClicks
       /\ (rsPc' = "traverse" /\ ppPc' \in {"extract", "save", "advance"}) =>
            \/ candClicks' = candidateNum' - 1
            \/ interrupted' /\ ppPc' = "advance" /\ candClicks' = candidateNum']_vars

\* after the extraction of the second candidate, reached by a click, the link
\* is hidden: the traversal is at the close of the panel with two records
C18_Witness ==
    /\ rsPc = "traverse" /\ ppPc = "close" /\ ~interrupted
    /\ nextBtn = "hidden" /\ candClicks = 1 /\ Len(profiles) = 2

(* C19, as stated: when the wait for the panel after the click on the first
   candidate times out, the traversal returns at once what it has collected,
   which is nothing, without an extraction; run_search takes the empty list
   like that of any page and is at its next-results-page step, the run not
   over. *)
C19_PanelTimeoutNotFatal ==
    [][(pageEnd' = "panel_timeout" /\ pageEnd # "panel_timeout") =>
          /\ ppPc = "wait_panel" /\ ppPc' = "none"
          /\ outcomes' = <<>> /\ profiles' = <<>> /\ candidateNum' = 0
          /\ returned' = Append(returned, <<pageNum, <<>>>>)
          /\ allProfiles' = allProfiles
          /\ rsPc' = "go_next" /\ result' = None /\ endedBy' = "none"]_vars

(* C20, as stated: during a run no click or key press is issued while the
   click or key press before it has not been followed by a random_sleep. *)
C20_EveryActionPaced ==
    ~uiBroken

(* C27, as stated: in a run from startPage to maxPages the next-results-page
   link is clicked at most maxPages - startPage times, and it is not clicked
   after the traversal of page maxPages. *)
C27_NoClickAfterLastPage ==
    (rsPc # "idle" /\ startPage <= maxPages) =>
       /\ Cardinality(nextClicked) <= maxPages - startPage
       /\ maxPages \notin nextClicked

(* C21, as stated: a configuration error (no search URL, no credentials of
   the remote database) is raised before the run has launched or connected
   to a browser. *)
C21_ConfigErrorsBeforeBrowser ==
    cfgError # "none" => ~browserUsed

\* the records extracted so far in the run
ExtractedThisRun ==
    {allProfiles[k] : k \in 1..Len(allProfiles)} \cup {profiles[k] : k \in 1..Len(profiles)}

(* C29, as stated: whenever main has ended, after an interruption or a
   failure at any point or after a normal return, every record of the list
   it filters and exports was extracted during that run. *)
C29_RecoveredFromThisRun ==
    mainAll # None =>
       /\ \A k \in 1..Len(mainAll[1]) : mainAll[1][k] \in ExtractedThisRun
       /\ \A filters \in RunFilterConfigs :
             \A k \in 1..Len(Exported(filters)) :
                \E rec \in ExtractedThisRun : Exported(filters)[k].full_name = rec.full_name

(* C30, as stated: once the file has been cleared at the start of the run,
   at every boundary of the candidate loop the records in the checkpoint
   file are the records accumulated so far, those of the earlier pages
   followed by those of the current page, and when run_search has returned,
   load_incremental_profiles() is the list it returned. *)
C30_LogMirrorsAccumulator ==
    /\ (rsPc = "traverse" /\ ppPc \in {"crash_check", "advance"})
          => LoadRunFile(FileText(logFile)) = allProfiles \o profiles
    /\ (rsPc = "done" /\ mainAll = None)
          => LoadRunFile(FileText(logFile)) = result[1][1]

-----------------------------------------------------------------------------
(* The start offset of the search URL (search.py, run_search, with the
   functions of urllib.parse and ipaddress of Python 3.11 that it calls).
   In this part a text is the sequence of the code points of a Python str,
   so that every character can be written: a control character, a grave
   accent, a character above U+007F, a lone surrogate. *)

\* the characters of codes 32 to 95 and of codes 97 to 126, in code order
AsciiLow == " !\"#$%&'()*+,-./0123456789:;<=>?@ABCDEFGHIJKLMNOPQRSTUVWXYZ[\\]^_"
AsciiHigh == "abcdefghijklmnopqrstuvwxyz{|}~"

\* ord(c) of the characters of the two ranges
OrdOf ==
    [c \in {CharAt(AsciiLow, i) : i \in 1..Len(AsciiLow)}
              \cup {CharAt(AsciiHigh, i) : i \in 1..Len(AsciiHigh)} |->
        IF IndexIn(AsciiLow, c) > 0 THEN IndexIn(AsciiLow, c) + 31 ELSE IndexIn(AsciiHigh, c) + 96]

\* the text of a string of characters of the two ranges
Codes(s) == SubSeq([i \in 1..Len(s) |-> OrdOf[CharAt(s, i)]], 1, Len(s))

\* the results of a results page: start_index = (start_page - 1) * 25
PageSize == 25

\* the least number of a non-empty set of numbers
Least(S) == CHOOSE i \in S : \A j \in S : i <= j

\* the 1-based position of the first c of text t at or after position start,
\* 0 when there is none (str.find)
Find(t, c, start) ==
    IF \E i \in start..Len(t) : t[i] = c THEN Least({i \in start..Len(t) : t[i] = c}) ELSE 0

\* the 1-based position of the last c of text t, 0 when there is none
\* (str.rfind)
RFind(t, c) ==
    IF \E i \in 1..Len(t) : t[i] = c
    THEN CHOOSE i \in 1..Len(t) : t[i] = c /\ \A j \in (i + 1)..Len(t) : t[j] # c
    ELSE 0

\* t[i - 1:] of Python, i being 1-based
From(t, i) == SubSeq(t, i, Len(t))

\* c in t
Has(t, c) == \E i \in 1..Len(t) : t[i] = c

RECURSIVE SplitOn(_, _)
\* t.split(c)
SplitOn(t, c) ==
    LET i == Find(t, c, 1)
    IN IF i = 0 THEN <<t>> ELSE <<SubSeq(t, 1, i - 1)>> \o SplitOn(From(t, i + 1), c)

\* t.split(c, 1)
SplitOnce(t, c) ==
    LET i == Find(t, c, 1)
    IN IF i = 0 THEN <<t>> ELSE <<SubSeq(t, 1, i - 1), From(t, i + 1)>>

\* t.replace(a, b) for characters a and b
ReplaceChar(t, a, b) == SubSeq([i \in 1..Len(t) |-> IF t[i] = a THEN b ELSE t[i]], 1, Len(t))

RECURSIVE Flatten(_)
\* ''.join(parts)
Flatten(parts) ==
    IF Len(parts) = 0 THEN <<>>
    ELSE IF Len(parts) = 1 THEN parts[1]
    ELSE Flatten(SubSeq(parts, 1, Len(parts) \div 2))
         \o Flatten(SubSeq(parts, Len(parts) \div 2 + 1, Len(parts)))

\* sep.join(parts) for a character sep
JoinWith(parts, sep) ==
    Flatten([i \in 1..Len(parts) |-> IF i = 1 THEN parts[i] ELSE <<sep>> \o parts[i]])

\* the value of a hexadecimal digit given by its code, either case; -1 for
\* another character
HexOf(c) ==
    IF c \in 48..57 THEN c - 48
    ELSE IF c \in 65..70 THEN c - 55
    ELSE IF c \in 97..102 THEN c - 87
    ELSE -1

\* the code of the upper-case hexadecimal digit of a value 0..15
HexChar(v) == IF v < 10 THEN 48 + v ELSE 55 + v

(* urllib.parse.urlsplit *)

\* _WHATWG_C0_CONTROL_OR_SPACE: the characters stripped from the head of a URL
C0ControlOrSpace == 0..32

\* _UNSAFE_URL_BYTES_TO_REMOVE: tab, line feed and carriage return, removed
\* wherever they are
UnsafeUrlBytesToRemove == {9, 10, 13}

\* scheme_chars: letters, digits and + - .
SchemeChars == (65..90) \cup (97..122) \cup (48..57) \cup {43, 45, 46}

\* uses_netloc
UsesNetloc ==
    {Codes(s) : s \in {"", "ftp", "http", "gopher", "nntp", "telnet", "imap", "wais", "file",
                       "mms", "https", "shttp", "snews", "prospero", "rtsp", "rtsps", "rtspu",
                       "rsync", "svn", "svn+ssh", "sftp", "nfs", "git", "git+ssh", "ws", "wss"}}

\* uses_params
UsesParams ==
    {Codes(s) : s \in {"", "ftp", "hdl", "prospero", "http", "imap", "https", "shttp", "rtsp",
                       "rtsps", "rtspu", "sip", "sips", "mms", "sftp", "tel"}}

\* url.lstrip(chars)
LStrip(t, chars) ==
    IF \A i \in 1..Len(t) : t[i] \in chars THEN <<>>
    ELSE From(t, Least({i \in 1..Len(t) : t[i] \notin chars}))

\* url.replace(b, "") for every b of chars
RemoveAll(t, chars) == SelectSeq(t, LAMBDA c : c \notin chars)

\* str.lower() of a text of scheme characters
LowerAscii(t) == SubSeq([i \in 1..Len(t) |-> IF t[i] \in 65..90 THEN t[i] + 32 ELSE t[i]], 1, Len(t))

\* the 1-based position where the netloc of "//netloc..." ends: that of the
\* first of / ? # after the two slashes, the length plus one when there is
\* none (_splitnetloc(url, 2))
SplitNetloc(t) ==
    IF \E i \in 3..Len(t) : t[i] \in {47, 63, 35}
    THEN Least({i \in 3..Len(t) : t[i] \in {47, 63, 35}})
    ELSE Len(t) + 1

\* ipaddress.IPv4Address._parse_octet accepts the text: one to three ASCII
\* digits, no leading zero but in "0", at most 255
IsOctet(octet) ==
    /\ octet # <<>>
    /\ \A i \in 1..Len(octet) : octet[i] \in 48..57
    /\ Len(octet) <= 3
    /\ (octet[1] = 48 => Len(octet) = 1)
    /\ (Len(octet) = 3 => (octet[1] - 48) * 100 + (octet[2] - 48) * 10 + (octet[3] - 48) <= 255)

\* ipaddress.IPv4Address accepts the text (_ip_int_from_string)
IsIPv4(t) ==
    /\ t # <<>>
    /\ Len(SplitOn(t, 46)) = 4
    /\ \A k \in 1..4 : IsOctet(SplitOn(t, 46)[k])

\* ipaddress.IPv6Address._parse_hextet accepts the text
IsHextet(t) == t # <<>> /\ Len(t) <= 4 /\ \A i \in 1..Len(t) : HexOf(t[i]) >= 0

\* ipaddress.IPv6Address accepts the text (_split_scope_id,
\* _ip_int_from_string)
IsIPv6(t) ==
    LET \* the hextets, an IPv4 tail being two of them: at most one '::',
        \* which stands for one hextet at least
        Hextets(parts) ==
            LET n == Len(parts)
                inner == {i \in 2..(n - 1) : parts[i] = <<>>}
                skip == Least(inner)
                ends == (IF parts[1] = <<>> THEN {1} ELSE {}) \cup (IF parts[n] = <<>> THEN {n} ELSE {})
            IN /\ n <= 9
               /\ Cardinality(inner) <= 1
               /\ IF inner # {}
                  THEN /\ (1 \in ends => skip = 2)
                       /\ (n \in ends => skip = n - 1)
                       /\ n - Cardinality(ends) <= 8
                       /\ \A i \in (1..n) \ (ends \cup {skip}) : IsHextet(parts[i])
                  ELSE /\ n = 8
                       /\ \A i \in 1..n : IsHextet(parts[i])
        \* the parts between the colons: three at least, the last one may
        \* be an IPv4 address
        Parts(split) ==
            /\ Len(split) >= 3
            /\ IF Has(split[Len(split)], 46)
               THEN /\ IsIPv4(split[Len(split)])
                    /\ Hextets(SubSeq(split, 1, Len(split) - 1) \o <<<<48>>, <<48>>>>)
               ELSE Hextets(split)
        \* the address in front of the scope id
        Address(addr) == addr # <<>> /\ Parts(SplitOn(addr, 58))
        pct == Find(t, 37, 1)
    IN IF pct = 0 THEN Address(t)
       ELSE /\ pct < Len(t) /\ ~Has(From(t, pct + 1), 37)
            /\ Address(SubSeq(t, 1, pct - 1))

\* _check_bracketed_host returns without ValueError: an IPvFuture address
\* (v, hexadecimal digits, a dot, at least one character) or an IPv6 address
CheckBracketedHost(hostname) ==
    IF hostname # <<>> /\ hostname[1] = 118
    THEN \E dot \in 3..(Len(hostname) - 1) :
            /\ hostname[dot] = 46
            /\ \A i \in 2..(dot - 1) : HexOf(hostname[i]) >= 0
    ELSE IsIPv6(hostname)

\* the characters above U+007F whose NFKC form has one of / ? # @ :
NfkcUnsafe ==
    {8263, 8264, 8265, 8448, 8449, 8453, 8454, 10868, 65043, 65046, 65109, 65110, 65119,
     65131, 65283, 65295, 65306, 65311, 65312}

\* _checknetloc returns without ValueError
CheckNetloc(netloc) == \A i \in 1..Len(netloc) : netloc[i] \notin NfkcUnsafe

\* the host between the first [ of a netloc and the next ]
\* (netloc.partition('[')[2].partition(']')[0])
BracketedHost(netloc) == SplitOnce(SplitOnce(netloc, 91)[2], 93)[1]

\* netloc has both brackets or none, and a bracketed host is an address
BracketsOk(netloc) ==
    /\ Has(netloc, 91) = Has(netloc, 93)
    /\ (Has(netloc, 91) => CheckBracketedHost(BracketedHost(netloc)))

\* urlsplit(url): the five parts, or raises for a ValueError
Urlsplit(url) ==
    LET \* the fragment is what follows the first #, the query what follows
        \* the first ? in front of it
        AfterNetloc(scheme, netloc, rest) ==
            LET hash == SplitOnce(rest, 35)
                quest == SplitOnce(hash[1], 63)
            IN [raises |-> ~(BracketsOk(netloc) /\ CheckNetloc(netloc)),
                scheme |-> scheme,
                netloc |-> netloc,
                path |-> quest[1],
                query |-> IF Len(quest) = 2 THEN quest[2] ELSE <<>>,
                fragment |-> IF Len(hash) = 2 THEN hash[2] ELSE <<>>]
        \* if url[:2] == '//': the netloc goes up to the first of / ? #
        AfterScheme(scheme, rest) ==
            IF Len(rest) >= 2 /\ rest[1] = 47 /\ rest[2] = 47
            THEN AfterNetloc(scheme, SubSeq(rest, 3, SplitNetloc(rest) - 1),
                             From(rest, SplitNetloc(rest)))
            ELSE AfterNetloc(scheme, <<>>, rest)
        \* what precedes the first colon is the scheme, lower-cased, when it
        \* starts with an ASCII letter and is made of scheme characters
        Stripped(stripped) ==
            LET colon == Find(stripped, 58, 1)
            IN IF /\ colon > 1
                  /\ stripped[1] \in (65..90) \cup (97..122)
                  /\ \A i \in 1..(colon - 1) : stripped[i] \in SchemeChars
               THEN AfterScheme(LowerAscii(SubSeq(stripped, 1, colon - 1)),
                                From(stripped, colon + 1))
               ELSE AfterScheme(<<>>, stripped)
    IN Stripped(RemoveAll(LStrip(url, C0ControlOrSpace), UnsafeUrlBytesToRemove))

\* _splitparams(url): the path and the parameters of its last segment
SplitParams(url) ==
    LET i == IF Has(url, 47) THEN Find(url, 59, RFind(url, 47)) ELSE Find(url, 59, 1)
    IN IF i = 0 THEN <<url, <<>>>> ELSE <<SubSeq(url, 1, i - 1), From(url, i + 1)>>

\* urlparse(url)
Urlparse(url) ==
    LET Parsed(split) ==
            LET hasParams == split.scheme \in UsesParams /\ Has(split.path, 59)
            IN [raises |-> split.raises,
                scheme |-> split.scheme,
                netloc |-> split.netloc,
                path |-> IF hasParams THEN SplitParams(split.path)[1] ELSE split.path,
                params |-> IF hasParams THEN SplitParams(split.path)[2] ELSE <<>>,
                query |-> split.query,
                fragment |-> split.fragment]
    IN Parsed(Urlsplit(url))

\* urlunsplit((scheme, netloc, url, query, fragment))
Urlunsplit(scheme, netloc, url, query, fragment) ==
    LET slashes ==
            \/ netloc # <<>>
            \/ /\ scheme # <<>>
               /\ scheme \in UsesNetloc
               /\ ~(Len(url) >= 2 /\ url[1] = 47 /\ url[2] = 47)
        located ==
            IF slashes
            THEN <<47, 47>> \o netloc \o (IF url # <<>> /\ url[1] # 47 THEN <<47>> ELSE <<>>) \o url
            ELSE url
    IN (IF scheme # <<>> THEN scheme \o <<58>> ELSE <<>>)
       \o located
       \o (IF query # <<>> THEN <<63>> \o query ELSE <<>>)
       \o (IF fragment # <<>> THEN <<35>> \o fragment ELSE <<>>)

\* urlunparse((scheme, netloc, url, params, query, fragment))
Urlunparse(parts) ==
    Urlunsplit(parts.scheme, parts.netloc,
               IF parts.params # <<>> THEN parts.path \o <<59>> \o parts.params ELSE parts.path,
               parts.query, parts.fragment)

(* urllib.parse.parse_qs *)

\* unquote_to_bytes of a text of ASCII characters: %XX with two hexadecimal
\* digits is the byte, anything else is itself
UnquoteToBytes(t) ==
    LET IsEscape(i) ==
            /\ t[i] = 37 /\ i + 2 <= Len(t)
            /\ HexOf(t[i + 1]) >= 0 /\ HexOf(t[i + 2]) >= 0
        \* the digits of an escape hold no %, so escapes never overlap
        InEscape(i) == (i > 1 /\ IsEscape(i - 1)) \/ (i > 2 /\ IsEscape(i - 2))
    IN Flatten([i \in 1..Len(t) |->
                   IF IsEscape(i) THEN <<HexOf(t[i + 1]) * 16 + HexOf(t[i + 2])>>
                   ELSE IF InEscape(i) THEN <<>>
                   ELSE <<t[i]>>])

\* U+FFFD, written for bytes that are not UTF-8
ReplacementChar == 65533

RECURSIVE Utf8Decode(_)
\* bytes.decode('utf-8', 'replace')
Utf8Decode(bs) ==
    IF bs = <<>> THEN <<>>
    ELSE LET b == bs[1]
             \* the continuation bytes the lead byte asks for, -1 for a byte
             \* that cannot lead
             need == IF b < 128 THEN 0
                     ELSE IF b \in 194..223 THEN 1
                     ELSE IF b \in 224..239 THEN 2
                     ELSE IF b \in 240..244 THEN 3
                     ELSE -1
             \* the second byte excludes overlong forms, surrogates and
             \* code points above U+10FFFF
             lo2 == IF b = 224 THEN 160 ELSE IF b = 240 THEN 144 ELSE 128
             hi2 == IF b = 237 THEN 159 ELSE IF b = 244 THEN 143 ELSE 191
             Continues(k) ==
                 /\ k <= Len(bs)
                 /\ IF k = 2 THEN bs[k] \in lo2..hi2 ELSE bs[k] \in 128..191
             \* the continuation bytes that are there
             good == Cardinality({n \in 1..need : \A k \in 2..(n + 1) : Continues(k)})
             lead == IF need = 1 THEN b - 192 ELSE IF need = 2 THEN b - 224 ELSE b - 240
             Value(k) == IF k = 1 THEN lead ELSE bs[k] - 128
             point == IF need = 1 THEN Value(1) * 64 + Value(2)
                      ELSE IF need = 2 THEN Value(1) * 4096 + Value(2) * 64 + Value(3)
                      ELSE Value(1) * 262144 + Value(2) * 4096 + Value(3) * 64 + Value(4)
         IN IF need = 0 THEN <<b>> \o Utf8Decode(Tail(bs))
            ELSE IF need = -1 THEN <<ReplacementChar>> \o Utf8Decode(Tail(bs))
            ELSE IF good = need THEN <<point>> \o Utf8Decode(From(bs, need + 2))
            ELSE <<ReplacementChar>> \o Utf8Decode(From(bs, good + 2))

RECURSIVE Unquote(_)
\* unquote(string, encoding='utf-8', errors='replace'): a text without %
\* is returned as it is; otherwise every maximal run of ASCII characters is
\* unquoted to bytes and decoded, what is between the runs is kept
Unquote(t) ==
    IF ~Has(t, 37) THEN t
    ELSE LET ends == {i \in 2..Len(t) : (t[i] < 128) # (t[1] < 128)}
             n == IF ends = {} THEN Len(t) ELSE Least(ends) - 1
         IN (IF t[1] < 128 THEN Utf8Decode(UnquoteToBytes(SubSeq(t, 1, n))) ELSE SubSeq(t, 1, n))
            \o (IF n = Len(t) THEN <<>> ELSE Unquote(From(t, n + 1)))

\* parse_qsl(qs) with keep_blank_values False: the pairs of the fields that
\* have a '=' and something after it
ParseQsl(qs) ==
    LET Pairs(fields) ==
            [i \in 1..Len(fields) |->
                [name |-> Unquote(ReplaceChar(SplitOnce(fields[i], 61)[1], 43, 32)),
                 value |-> Unquote(ReplaceChar(SplitOnce(fields[i], 61)[2], 43, 32))]]
    IN Pairs(SelectSeq(SplitOn(qs, 38),
                       LAMBDA f : Len(SplitOnce(f, 61)) = 2 /\ SplitOnce(f, 61)[2] # <<>>))

RECURSIVE DictOfPairs(_)
\* the dict built from the pairs: a key is placed where its first pair is and
\* has the values of all its pairs, in order
DictOfPairs(pairs) ==
    IF Len(pairs) = 0 THEN <<>>
    ELSE LET name == pairs[1].name
             mine == SelectSeq(pairs, LAMBDA p : p.name = name)
             others == SelectSeq(pairs, LAMBDA p : p.name # name)
         IN <<[name |-> name, values |-> [i \in 1..Len(mine) |-> mine[i].value]]>>
            \o DictOfPairs(others)

\* parse_qs(qs)
ParseQs(qs) == DictOfPairs(ParseQsl(qs))

\* d.setdefault(name, []).extend(values) in place of the assignment
SetItem_Append(dict, name, values) ==
    IF \E i \in 1..Len(dict) : dict[i].name = name
    THEN [i \in 1..Len(dict) |->
             IF dict[i].name = name
             THEN [name |-> name, values |-> dict[i].values \o values]
             ELSE dict[i]]
    ELSE Append(dict, [name |-> name, values |-> values])

\* d[name] = values: the value of the key is replaced where the key is, a
\* new key goes last
SetItem(dict, name, values) ==
    IF \E i \in 1..Len(dict) : dict[i].name = name
    THEN [i \in 1..Len(dict) |->
             IF dict[i].name = name THEN [name |-> name, values |-> values] ELSE dict[i]]
    ELSE Append(dict, [name |-> name, values |-> values])

(* urllib.parse.urlencode *)

\* str.encode('utf-8', 'strict') raises UnicodeEncodeError: the text has a
\* surrogate
EncodeRaises(t) == \E i \in 1..Len(t) : t[i] \in 55296..57343

\* the UTF-8 bytes of a character
Utf8Char(c) ==
    IF c < 128 THEN <<c>>
    ELSE IF c < 2048 THEN <<192 + c \div 64, 128 + (c % 64)>>
    ELSE IF c < 65536 THEN <<224 + c \div 4096, 128 + ((c \div 64) % 64), 128 + (c % 64)>>
    ELSE <<240 + c \div 262144, 128 + ((c \div 4096) % 64), 128 + ((c \div 64) % 64), 128 + (c % 64)>>

\* str.encode('utf-8') of a text without surrogates
Utf8Encode(t) == Flatten([i \in 1..Len(t) |-> Utf8Char(t[i])])

\* a byte quote_plus never quotes: letters, digits and _ . - ~
IsUrlSafe(b) == b \in (65..90) \cup (97..122) \cup (48..57) \cup {95, 46, 45, 126}

\* quote_plus(string) of a text without surrogates: a space is a '+', a safe
\* byte is itself, any other byte is %XX in upper case
QuotePlus(t) ==
    LET Quoted(bs) ==
            Flatten([i \in 1..Len(bs) |->
                        IF bs[i] = 32 THEN <<43>>
                        ELSE IF IsUrlSafe(bs[i]) THEN <<bs[i]>>
                        ELSE <<37, HexChar(bs[i] \div 16), HexChar((bs[i]) % 16)>>])
    IN Quoted(Utf8Encode(t))

\* the name=value fields of one key, one per value
EncodeValues(name, values) ==
    [i \in 1..Len(values) |-> QuotePlus(name) \o <<61>> \o QuotePlus(values[i])]

\* the fields of all the keys, in the order of the dict
EncodeFields(dict) ==
    Flatten([k \in 1..Len(dict) |-> EncodeValues(dict[k].name, dict[k].values)])

\* urlencode(query, doseq=True) of a dict of lists of str: the text, or
\* raises for the UnicodeEncodeError of a name or a value
Urlencode(dict) ==
    LET raises ==
            \E k \in 1..Len(dict) :
               \/ EncodeRaises(dict[k].name)
               \/ \E i \in 1..Len(dict[k].values) : EncodeRaises(dict[k].values[i])
    IN [raises |-> raises,
        text |-> IF raises THEN <<>> ELSE JoinWith(EncodeFields(dict), 38)]

(* run_search *)

\* the rewrite raised: a ValueError of run_search or of urlparse, or the
\* UnicodeEncodeError of urlencode; nothing is navigated to
Raised == [raises |-> TRUE, url |-> <<>>]

\* lines 73-92 of run_search: the URL handed to page.goto for a configured
\* URL and start page
StartUrl(url, start_page) ==
    LET Rebuilt(parsed, new_query) ==
            IF parsed.raises \/ new_query.raises THEN Raised
            ELSE [raises |-> FALSE, url |-> Urlunparse([parsed EXCEPT !.query = new_query.text])]
        Parsed(parsed) ==
            Rebuilt(parsed,
                    Urlencode(SetItem(ParseQs(parsed.query), Codes("start"),
                                      <<Codes(IntToStr((start_page - 1) * PageSize))>>)))
    IN IF url = <<>> THEN Raised ELSE Parsed(Urlparse(url))

MaxUrlFields == 2
MaxStartPage == 3

\* fields of the query of a pasted search URL, as typed: plain, blank and
\* valueless ones, stale offsets, names that only resemble start, percent
\* escapes of every kind
UrlFields ==
    {"q=a+b", "k=", "", "start=50", "start=75", "start", "Start=50", "sta%72t=50",
     "q=x;start=50", "q=%7E~%60%7F%c3%a9", "%0A=%00%C3%A9%FF%E2%82%"}

\* fields with characters written by their code: a raw character above
\* U+007F and a grave accent, a lone surrogate, a tab inside the name
RawFields ==
    {Codes("q=") \o <<233, 96>>, Codes("q=%41") \o <<55296>>, Codes("s") \o <<9>> \o Codes("tart=5")}

\* what precedes the query in the pasted URL
UrlHead == "https://www.linkedin.com/talent/search"

\* other ways to write what precedes the query: another capitalisation,
\* leading blanks, parameters of the path, no scheme or no host, a scheme
\* without a host part, bracketed hosts, characters above U+007F
UrlHeads ==
    {Codes(UrlHead),
     Codes("HTTPS://WWW.LinkedIn.com/Talent/search"),
     <<32, 9, 0>> \o Codes(UrlHead),
     Codes("https://www.linkedin.com/tal") \o <<10>> \o Codes("ent/search"),
     Codes("https://www.linkedin.com/talent/search;"),
     Codes("https://www.linkedin.com/talent;v=1/search;p=2"),
     Codes("www.linkedin.com/talent/search"),
     Codes("//www.linkedin.com/talent"),
     Codes("////talent"),
     Codes("http:talent"),
     Codes("mailto:a@b;c"),
     Codes("1http://x/"),
     Codes("https://[::1]:8080/s"),
     Codes("https://[::ffff:1.2.3.4%eth0]/s"),
     Codes("https://[v1.x]/s"),
     Codes("https://[::1/s"),
     Codes("https://[1.2.3.4]/s"),
     Codes("https://[1::2::3]/s"),
     Codes("https://www.linkedin") \o <<65295>> \o Codes(".com/s"),
     Codes("https://www.link") \o <<233>> \o Codes("din.com/s"),
     <<>>}

UrlQueries == UNION {[1..n -> UrlFields] : n \in 0..MaxUrlFields}

RECURSIVE JoinText(_, _)
\* sep.join(parts) for strings
JoinText(parts, sep) ==
    IF Len(parts) = 0 THEN ""
    ELSE IF Len(parts) = 1 THEN parts[1]
    ELSE parts[1] \o sep \o JoinText(SubSeq(parts, 2, Len(parts)), sep)

\* the URL of a head, the fields of a query and a fragment
UrlOf(head, fields, frag) ==
    head \o (IF fields = <<>> THEN <<>> ELSE <<63>> \o JoinWith(fields, 38)) \o frag

\* the pasted search URLs: every query of typed fields after the usual head,
\* with and without a fragment; every head without a query and with a stale
\* offset; the usual head with a field written by code, alone, after a stale
\* offset and in front of one
SearchUrls ==
    {Codes(UrlHead \o (IF fields = <<>> THEN "" ELSE "?" \o JoinText(fields, "&")) \o frag) :
        fields \in UrlQueries, frag \in {"", "#start=50"}}
    \cup {UrlOf(head, fields, <<>>) :
             head \in UrlHeads, fields \in {<<>>, <<Codes("start=50")>>}}
    \cup UNION {{UrlOf(Codes(UrlHead), fields, <<>>) :
                    fields \in {<<raw>>, <<Codes("start=50"), raw>>, <<raw, Codes("start=75")>>}} :
                raw \in RawFields}

UrlIdle == uUrl = <<>> /\ uStartPage = 1 /\ uOut = None

UrlInit == uUrl \in SearchUrls /\ uStartPage \in 1..MaxStartPage /\ uOut = None

\* lines 73-92 of run_search
RewriteUrl ==
    /\ uOut = None
    /\ uOut' = Some(StartUrl(uUrl, uStartPage))
    /\ UNCHANGED <<uUrl, uStartPage>>

\* the fields of the query of a URL that name the parameter, as the server
\* reads them: the query is what is between the first ? and the first #,
\* its fields are separated by &, the name of a field is what precedes its
\* first =, with + for a space and percent escapes for bytes
FieldsNamed(url, name) ==
    LET Fields(query) ==
            SelectSeq(SplitOn(query, 38),
                      LAMBDA f : UnquoteToBytes(ReplaceChar(SplitOnce(f, 61)[1], 43, 32)) = name)
        BeforeHash(t) == IF Has(t, 63) THEN Fields(SplitOnce(t, 63)[2]) ELSE <<>>
    IN BeforeHash(SplitOnce(url, 35)[1])

(* C16: when the rewrite of run_search returns, the URL of the first
   navigation has exactly one query field named start, and it is
   start=(start_page - 1) * 25, whatever start fields the URL given had. *)
C16_StartOffset ==
    (uOut # None /\ ~uOut[1].raises) =>
       FieldsNamed(uOut[1].url, Codes("start"))
          = <<Codes("start=" \o IntToStr((uStartPage - 1) * PageSize))>>

\* a URL pasted with two stale offsets is rewritten for page 2
C16_Witness ==
    /\ uUrl = Codes(UrlHead \o "?start=50&start=75")
    /\ uStartPage = 2
    /\ uOut = Some([raises |-> FALSE, url |-> Codes(UrlHead \o "?start=25")])

-----------------------------------------------------------------------------
(* Specifications *)

InitParser == ParserInit /\ TitleIdle /\ EduIdle /\ PanelIdle /\ RunIdle /\ CheckpointIdle /\ UrlIdle /\ LocationIdle /\ FilterIdle
NextParser == ParseText /\ UNCHANGED <<titleVars, eduVars, panelVars, runVars, ckVars, urlVars, locVars, filterVars>>
SpecParser == InitParser /\ [][NextParser]_vars

InitTitle == TitleInit /\ ParserIdle /\ EduIdle /\ PanelIdle /\ RunIdle /\ CheckpointIdle /\ UrlIdle /\ LocationIdle /\ FilterIdle
NextTitle == MatchTitle /\ UNCHANGED <<parserVars, eduVars, panelVars, runVars, ckVars, urlVars, locVars, filterVars>>
SpecTitle == InitTitle /\ [][NextTitle]_vars

InitEdu == EduInit /\ ParserIdle /\ TitleIdle /\ PanelIdle /\ RunIdle /\ CheckpointIdle /\ UrlIdle /\ LocationIdle /\ FilterIdle
NextEdu ==
    \/ ClassifyCall /\ UNCHANGED <<parserVars, titleVars, panelVars, runVars, ckVars, urlVars, locVars, filterVars>>
    \/ ExtractEducationCall /\ UNCHANGED <<parserVars, titleVars, panelVars, runVars, ckVars, urlVars, locVars, filterVars>>
SpecEdu == InitEdu /\ [][NextEdu]_vars

InitPanel == PanelInit /\ ParserIdle /\ TitleIdle /\ EduIdle /\ RunIdle /\ CheckpointIdle /\ UrlIdle /\ LocationIdle /\ FilterIdle
NextPanel == ExtractCall /\ UNCHANGED <<parserVars, titleVars, eduVars, runVars, ckVars, urlVars, locVars, filterVars>>
SpecPanel == InitPanel /\ [][NextPanel]_vars

InitCheckpoint == CheckpointInit /\ ParserIdle /\ TitleIdle /\ EduIdle /\ PanelIdle /\ RunIdle /\ UrlIdle /\ LocationIdle /\ FilterIdle
NextCheckpoint ==
    \/ SaveCall /\ UNCHANGED <<parserVars, titleVars, eduVars, panelVars, runVars, urlVars, locVars, filterVars>>
    \/ LoadCall /\ UNCHANGED <<parserVars, titleVars, eduVars, panelVars, runVars, urlVars, locVars, filterVars>>
    \/ ClearCall /\ UNCHANGED <<parserVars, titleVars, eduVars, panelVars, runVars, urlVars, locVars, filterVars>>
SpecCheckpoint == InitCheckpoint /\ [][NextCheckpoint]_vars

InitUrl == UrlInit /\ ParserIdle /\ TitleIdle /\ EduIdle /\ PanelIdle /\ RunIdle /\ CheckpointIdle /\ LocationIdle /\ FilterIdle
NextUrl == RewriteUrl /\ UNCHANGED <<parserVars, titleVars, eduVars, panelVars, runVars, ckVars, locVars, filterVars>>
SpecUrl == InitUrl /\ [][NextUrl]_vars

InitLocation ==
    /\ LocationInit /\ ParserIdle /\ TitleIdle /\ EduIdle /\ PanelIdle /\ RunIdle
    /\ CheckpointIdle /\ UrlIdle /\ FilterIdle
NextLocation ==
    NormalizeCall
    /\ UNCHANGED <<parserVars, titleVars, eduVars, panelVars, runVars, ckVars, urlVars, filterVars>>
SpecLocation == InitLocation /\ [][NextLocation]_vars

InitFilter ==
    /\ FilterInit /\ ParserIdle /\ TitleIdle /\ EduIdle /\ PanelIdle /\ RunIdle
    /\ CheckpointIdle /\ UrlIdle /\ LocationIdle
NextFilter ==
    FilterCall
    /\ UNCHANGED <<parserVars, titleVars, eduVars, panelVars, runVars, ckVars, urlVars, locVars>>
SpecFilter == InitFilter /\ [][NextFilter]_vars

otherVars ==
    <<parserVars, titleVars, eduVars, panelVars, ckVars, urlVars, locVars, filterVars>>

Init == RunIdle /\ ParserIdle /\ TitleIdle /\ EduIdle /\ PanelIdle /\ CheckpointIdle /\ UrlIdle /\ LocationIdle /\ FilterIdle
Next ==
    \/ StartRun /\ UNCHANGED otherVars
    \/ InitBrowser /\ UNCHANGED otherVars
    \/ MainFinally /\ UNCHANGED otherVars
    \/ Goto /\ UNCHANGED otherVars
    \/ WaitResults /\ UNCHANGED otherVars
    \/ OpenFirstCandidate /\ UNCHANGED otherVars
    \/ WaitPanel /\ UNCHANGED otherVars
    \/ CrashCheck /\ UNCHANGED otherVars
    \/ ExtractStep /\ UNCHANGED otherVars
    \/ SaveStep /\ UNCHANGED otherVars
    \/ AdvanceStep /\ UNCHANGED otherVars
    \/ ClosePanel /\ UNCHANGED otherVars
    \/ GoNext /\ UNCHANGED otherVars
    \/ Interrupt /\ UNCHANGED otherVars
Spec == Init /\ [][Next]_vars

=============================================================================
